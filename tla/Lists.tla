------------------------------- MODULE Lists -------------------------------
(***************************************************************************)
(* Loops over lists as recursive functions of the position, which TLC      *)
(* evaluates from one position to the next and proofs can unfold.          *)
(***************************************************************************)
EXTENDS Integers, Sequences, Functions

\* A list, of whatever items.
IsList(x) == x \in Seq(Range(x))

\* A parser's run over its items.
Reading(Step(_, _), start, items) ==
    LET after[i \in 0..Len(items)] == IF i = 0 THEN start ELSE Step(after[i - 1], items[i])
    IN  after[Len(items)]

\* f[1] + ... + f[n].
SumUpTo(f, n) ==
    LET sum[i \in 0 .. n] == IF i = 0 THEN 0 ELSE sum[i - 1] + f[i]
    IN  sum[n]

\* The items at the given places, in their order.
Chosen(items, places) ==
    LET upTo[i \in 0..Len(items)] ==
            IF i = 0 THEN <<>>
            ELSE IF i \in places THEN Append(upTo[i - 1], items[i]) ELSE upTo[i - 1]
    IN  upTo[Len(items)]

=============================================================================
