--------------------------- MODULE SecretSequence ---------------------------
(***************************************************************************)
(* src/ServerApp/NotePi/SecretSequence.h: what a guess is told about the   *)
(* secret.  Sequences of note names; the five of the code are Len(secret). *)
(***************************************************************************)
EXTENDS Integers, Sequences, FiniteSets

NoteFeedback == {"CORRECT", "WRONG_ORDER", "WRONG_PITCH"}

Size(secret, guess) == IF Len(guess) < Len(secret) THEN Len(guess) ELSE Len(secret)

Compared(secret, guess) == 1..Size(secret, guess)

\* First pass: notes in their place; what they match in the secret is used.
FirstPass(secret, guess) ==
    LET places == Compared(secret, guess)
        hits == {i \in places : guess[i] = secret[i]}
    IN  [used |-> hits,
         feedback |-> [i \in places |-> IF i \in hits THEN "CORRECT" ELSE "WRONG_PITCH"]]

\* Mutant: a note of the secret may answer for several of the guess.
PlaceForgetsUse(secret, guess, pass, i) ==
    LET matches == {j \in Compared(secret, guess) : guess[i] = secret[j]}
    IN  IF pass.feedback[i] = "CORRECT" \/ matches = {} THEN pass
        ELSE [pass EXCEPT !.feedback[i] = "WRONG_ORDER"]

\* Second pass, at place i: the first unused note of the secret that is equal.
Place(secret, guess, pass, i) ==
    LET free == {j \in Compared(secret, guess) : j \notin pass.used /\ guess[i] = secret[j]}
    IN  IF pass.feedback[i] = "CORRECT" \/ free = {} THEN pass
        ELSE [used |-> pass.used \cup {CHOOSE j \in free : \A k \in free : j <= k},
              feedback |-> [pass.feedback EXCEPT ![i] = "WRONG_ORDER"]]

Evaluate(secret, guess) ==
    LET pass[i \in 0..Size(secret, guess)] ==
            IF i = 0 THEN FirstPass(secret, guess) ELSE Place(secret, guess, pass[i - 1], i)
    IN  pass[Size(secret, guess)].feedback

IsSolved(secret, guess) == guess = secret

-----------------------------------------------------------------------------
(***************************************************************************)
(* What the README promises: green for a note in its place; of the notes   *)
(* of one name that are not, as many as the secret has elsewhere are       *)
(* yellow, the first ones; the others are red.                             *)
(***************************************************************************)
Misplaced(secret, guess, note, S) ==
    {i \in S : guess[i] = note /\ secret[i] # note}

WordleFeedback(secret, guess) ==
    LET places == Compared(secret, guess)
    IN  [i \in places |->
            IF guess[i] = secret[i] THEN "CORRECT"
            ELSE IF Cardinality(Misplaced(secret, guess, guess[i], 1..(i - 1)))
                      < Cardinality(Misplaced(guess, secret, guess[i], places))
                 THEN "WRONG_ORDER" ELSE "WRONG_PITCH"]

=============================================================================
