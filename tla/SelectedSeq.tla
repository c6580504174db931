---------------------------- MODULE SelectedSeq ----------------------------
(***************************************************************************)
(* The elements of a sequence that are in a set, in their order: what a    *)
(* loop over a container collects when it takes some of the elements and   *)
(* skips the others.                                                       *)
(***************************************************************************)
EXTENDS Naturals, Sequences, SequencesExt

selected(s, T) ==
    LET upTo[n \in 0 .. Len(s)] ==
          IF n = 0 THEN <<>>
          ELSE IF s[n] \in T THEN Append(upTo[n - 1], s[n])
          ELSE upTo[n - 1]
    IN  upTo[Len(s)]

without(s, e) == selected(s, ToSet(s) \ {e})
=============================================================================
