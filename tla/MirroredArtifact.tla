-------------------------- MODULE MirroredArtifact --------------------------
(* What artifact.transfer promises for its destination: it holds one whole *)
(* state of the source after another, and changes in one step.             *)
EXTENDS Naturals

CONSTANTS Initial   \* what is at the destination at first
VARIABLES source,   \* the artifact at its source
          past,     \* the states it has been in
          content   \* the artifact at the destination

mirrorVars == <<source, past, content>>

MirrorInit ==
  /\ past = {source}
  /\ content = Initial

\* Whoever owns the source changes it.
ChangeSource ==
  /\ source' # source
  /\ past' = past \cup {source'}
  /\ UNCHANGED content

\* A transfer replaces the destination by a state of the source.
Replace ==
  /\ content' \in past
  /\ UNCHANGED <<source, past>>

MirrorSpec == MirrorInit /\ [][ChangeSource \/ Replace]_mirrorVars
=============================================================================
