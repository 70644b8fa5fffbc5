------------------------------ MODULE Filters ------------------------------
(***************************************************************************)
(* GitHub's branch filters as internal/rules/triggers.go reads them:       *)
(* parsing a filter pattern into tokens, matching the tokens against a     *)
(* branch name, and what a list of patterns admits.  A pattern and a name  *)
(* are sequences of characters; Alphabet is the part of the character set  *)
(* a run uses, in code order.                                              *)
(***************************************************************************)
EXTENDS Naturals, Sequences, SequencesExt

Alphabet == <<"!", "*", "+", "-", "/", "?", "[", "\\", "]", "a", "b", "i", "m", "n">>

Code(c) == CHOOSE i \in DOMAIN Alphabet : Alphabet[i] = c

Alphanumeric == {"a", "b", "i", "m", "n"}

\* A token is a run ("segment" for *, "any" for **) or one character or class
\* ("none"), which quant may qualify; ranges holds <<lo, hi>> code pairs.
Token(run, ranges) == [run |-> run, ranges |-> ranges, quant |-> "none"]

One(c) == Token("none", {<<Code(c), Code(c)>>})

\* filterToken.admits: one more character of a run, or the character itself.
Admits(t, c) ==
    CASE t.run = "segment" -> c # "/"
      [] t.run = "any" -> TRUE
      [] OTHER -> \E r \in t.ranges : r[1] <= Code(c) /\ Code(c) <= r[2]

(***************************************************************************)
(* The inside of a [...] class.  A hyphen between two characters makes a   *)
(* range; one that cannot is itself a member; a backward range is refused. *)
(***************************************************************************)
Ranges(s) ==
    LET isRange(i) == i + 2 <= Len(s) /\ s[i + 1] = "-"
        hi(i) == IF isRange(i) THEN s[i + 2] ELSE s[i]
        from[i \in 1 .. Len(s) + 1] ==
          IF i > Len(s) THEN [ok |-> TRUE, ranges |-> {}]
          ELSE LET rest == from[IF isRange(i) THEN i + 3 ELSE i + 1]
               IN [ok |-> Code(s[i]) <= Code(hi(i)) /\ rest.ok,
                   ranges |-> {<<Code(s[i]), Code(hi(i))>>} \cup rest.ranges]
    IN from[1]

ClassRanges(s) ==
    IF ToSet(s) \subseteq Alphanumeric \cup {"-"} THEN Ranges(s) ELSE [ok |-> FALSE, ranges |-> {}]

\* parseFilter's loop: [ok, i, tokens, quantifiable], the next character being
\* p[i]; quantifiable says the last token is a single character or class.
ParseStart == [ok |-> TRUE, i |-> 1, tokens |-> <<>>, quantifiable |-> FALSE]

Unread(s) == [s EXCEPT !.ok = FALSE]

Add(s, token, next) ==
    [s EXCEPT !.i = next, !.tokens = Append(@, token), !.quantifiable = token.run = "none"]

Qualify(s, c) ==
    [s EXCEPT !.i = @ + 1, !.tokens = [@ EXCEPT ![Len(@)].quant = c], !.quantifiable = FALSE]

AddClass(p, s) ==
    LET closes == {k \in (s.i + 1)..Len(p) : p[k] = "]"}
        end == CHOOSE k \in closes : \A l \in closes : k <= l
        class == ClassRanges(SubSeq(p, s.i + 1, end - 1))
    IN IF closes = {} \/ end = s.i + 1 \/ ~class.ok THEN Unread(s)
       ELSE Add(s, Token("none", class.ranges), end + 1)

ParseTurn(p, s) ==
    CASE ~s.ok \/ s.i > Len(p) -> s
      [] s.ok /\ s.i <= Len(p) /\ p[s.i] = "*" ->
           IF s.i < Len(p) /\ p[s.i + 1] = "*" THEN Add(s, Token("any", {}), s.i + 2)
           ELSE Add(s, Token("segment", {}), s.i + 1)
      [] s.ok /\ s.i <= Len(p) /\ p[s.i] \in {"?", "+"} -> IF s.quantifiable THEN Qualify(s, p[s.i]) ELSE Unread(s)
      [] s.ok /\ s.i <= Len(p) /\ p[s.i] = "[" -> AddClass(p, s)
      [] s.ok /\ s.i <= Len(p) /\ p[s.i] = "\\" ->
           IF s.i = Len(p) THEN Unread(s) ELSE Add(s, One(p[s.i + 1]), s.i + 2)
      [] OTHER -> Add(s, One(p[s.i]), s.i + 1)

\* A turn reads one character at least.
ParseFilter(p) ==
    LET after[turns \in 0..Len(p)] == IF turns = 0 THEN ParseStart ELSE ParseTurn(p, after[turns - 1])
    IN after[Len(p)]

(***************************************************************************)
(* filterMatch.at: tokens[ti..] against name[ni..], 0-based as in the      *)
(* code.  failed is the memo, threaded through the calls: the keys of the  *)
(* pairs already known not to match.  A search of one token is a function  *)
(* of ni and failed, made from the search of those behind it (rest).       *)
(***************************************************************************)
\* Mutant: the memo's rows are one position too short, so two pairs share a key.
KeyShort(ti, ni, size) == ti * size + ni

Key(ti, ni, size) == ti * (size + 1) + ni

Memos(count, size) == SUBSET (0..((count + 1) * (size + 1) - 1))

No(failed) == [ok |-> FALSE, failed |-> failed]

More(t, name, ni) == ni < Len(name) /\ Admits(t, name[ni + 1])

\* One turn of the loop over a star: the rest of the tokens from ni, else one
\* more character and the next turn.
StarTurn(t, name, memos, rest, ni, next) ==
    [failed \in memos |->
       LET here == rest[ni][failed]
       IN IF here.ok \/ ~More(t, name, ni) THEN here ELSE next[here.failed]]

Star(t, name, memos, rest) ==
    LET run[left \in 0..Len(name)] == StarTurn(t, name, memos, rest, Len(name) - left, run[left - 1])
    IN run

\* One turn of the loop over a +: one more character, then the rest.
PlusTurn(t, name, memos, rest, ni, next) ==
    [failed \in memos |->
       IF ~More(t, name, ni) THEN No(failed)
       ELSE LET here == rest[ni + 1][failed] IN IF here.ok THEN here ELSE next[here.failed]]

Plus(t, name, memos, rest) ==
    LET run[left \in 0..Len(name)] == PlusTurn(t, name, memos, rest, Len(name) - left, run[left - 1])
    IN run

\* One character, or none where ? lets it be skipped.
Once(t, name, rest, ni, failed) ==
    LET skipped == IF t.quant = "?" THEN rest[ni][failed] ELSE No(failed)
    IN IF ~skipped.ok /\ More(t, name, ni) THEN rest[ni + 1][skipped.failed] ELSE skipped

Try(t, name, memos, rest, ni, failed) ==
    CASE t.run # "none" -> Star(t, name, memos, rest)[Len(name) - ni][failed]
      [] t.run = "none" /\ t.quant = "+" -> Plus(t, name, memos, rest)[Len(name) - ni][failed]
      [] OTHER -> Once(t, name, rest, ni, failed)

Searched(tokens, name, memos, ti, rest) ==
    [ni \in 0..Len(name) |-> [failed \in memos |->
       LET key == Key(ti, ni, Len(name))
           out == Try(tokens[ti + 1], name, memos, rest, ni, failed)
       IN IF key \in failed THEN No(failed) ELSE IF out.ok THEN out ELSE No(out.failed \cup {key})]]

\* With no token left the name must be over.
NameOver(name, memos) ==
    [ni \in 0..Len(name) |-> [failed \in memos |-> [ok |-> ni = Len(name), failed |-> failed]]]

At(tokens, name) ==
    LET memos == Memos(Len(tokens), Len(name))
        from[left \in 0..Len(tokens)] ==
          IF left = 0 THEN NameOver(name, memos)
          ELSE Searched(tokens, name, memos, Len(tokens) - left, from[left - 1])
    IN from[Len(tokens)][0][{}].ok

MatchFilter(pattern, name) ==
    LET parsed == ParseFilter(pattern) IN parsed.ok /\ At(parsed.tokens, name)

\* In branches a !pattern excludes, and the last pattern that matches decides.
BranchList(branches, branch) ==
    LET negated(p) == p # <<>> /\ Head(p) = "!"
        match(p) == MatchFilter(IF negated(p) THEN Tail(p) ELSE p, branch)
        matching == {i \in DOMAIN branches : match(branches[i])}
    IN \E i \in matching : ~negated(branches[i]) /\ \A k \in matching : k <= i

BranchAdmits(branches, ignore, branch) ==
    CASE branches = <<>> /\ ignore = <<>> -> TRUE
      [] ignore # <<>> -> \A i \in DOMAIN ignore : ~MatchFilter(ignore[i], branch)
      [] OTHER -> BranchList(branches, branch)

(***************************************************************************)
(* What the syntax means, with no search: the name falls into one piece    *)
(* per token, each a piece the token stands for.                           *)
(***************************************************************************)
StandsFor(t, piece) ==
    /\ \A i \in DOMAIN piece : Admits(t, piece[i])
    /\ t.run = "none" => CASE t.quant = "?" -> Len(piece) <= 1
                           [] t.quant = "+" -> Len(piece) >= 1
                           [] OTHER -> Len(piece) = 1

Means(pattern, name) ==
    LET parsed == ParseFilter(pattern)
        n == Len(parsed.tokens)
    IN /\ parsed.ok
       /\ \E cut \in [0..n -> 0..Len(name)] :
            /\ cut[0] = 0 /\ cut[n] = Len(name)
            /\ \A i \in 1..n : /\ cut[i - 1] <= cut[i]
                               /\ StandsFor(parsed.tokens[i], SubSeq(name, cut[i - 1] + 1, cut[i]))
=============================================================================
