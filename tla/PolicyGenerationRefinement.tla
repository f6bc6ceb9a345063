--------------------- MODULE PolicyGenerationRefinement ---------------------
(***************************************************************************)
(* PolicyGeneration implements PolicySwitch: what is in force is the        *)
(* content of the active bank.                                              *)
(***************************************************************************)
EXTENDS PolicyGeneration

\* What a bank holds, without the order of its entries.
Content(image) == [rules |-> Elements(image.rules), profiles |-> Elements(image.profiles)]

ValidContents ==
    {Content(image) : image \in {r \in Images : validateBankImage(r, RuleCapacity, ProfileCapacity)}}

Switching == INSTANCE PolicySwitch
    WITH Valid <- ValidContents, Nothing <- Content(Blank),
         revision <- selector.revision, content <- Content(banks[selector.bank])

\* To a reader of the active bank a commit is one step: the image in force goes
\* from one valid request to the next as a whole, and no preparation, failure,
\* crash or recovery touches it.
ImplementsPolicySwitch == Switching!SwitchSpec
=============================================================================
