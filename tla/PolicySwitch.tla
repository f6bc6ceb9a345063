---------------------------- MODULE PolicySwitch ----------------------------
(***************************************************************************)
(* What policy generations promise to whoever reads the active bank: the    *)
(* image in force changes as a whole, to a valid image, under the next      *)
(* revision, and nothing else ever changes it.                              *)
(***************************************************************************)
EXTENDS Integers

CONSTANT Valid     \* the contents a generation may have
CONSTANT Nothing   \* the content before the first commit

VARIABLES revision, content

switchVars == <<revision, content>>

SwitchInit == revision = 0 /\ content = Nothing

Switch == revision' = revision + 1 /\ content' \in Valid

SwitchSpec == SwitchInit /\ [][Switch]_switchVars
=============================================================================
