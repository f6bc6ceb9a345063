--------------------------- MODULE ServiceProofs ----------------------------
(***************************************************************************)
(* Proofs about the smaller services of Core: a policy commit is atomic;    *)
(* every containment is reported and spares Core; every timeline is served, *)
(* with true matches in it; a stream ticket admits once and the connection  *)
(* limit holds.                                                             *)
(***************************************************************************)
EXTENDS PolicyGenerationRefinement, Containment, EvidenceTimeline, StreamTickets,
        FiniteSetTheorems, TLAPS

-----------------------------------------------------------------------------
(* The policy banks. *)

Acceptable(image) == image \in Images /\ validateBankImage(image, RuleCapacity, ProfileCapacity)

Holding(u) == updater[u].pc \in {"write", "activate", "clear"}

\* An open update belongs to the holder of the lock and has read the selector.
Exclusive ==
    \A u \in Updaters : Holding(u) => lock = u /\ updater[u].active = selector

\* What a commit in progress has established.
CommitsAreSound ==
    \A u \in Updaters :
        /\ updater[u].pc \in {"write", "activate"} =>
               updater[u].call = "Commit" /\ selector.revision # MaxRevision
        /\ updater[u].call = "Commit" /\ updater[u].pc # "idle" => Acceptable(updater[u].image)
        /\ updater[u].pc = "activate" => verifyBankImage(updater[u].image, banks[Inactive(u)])

\* A recovery in progress has read the active bank.
RecoveriesAreSound ==
    \A u \in Updaters :
        updater[u].pc = "clear" => selector.revision # 0 /\ updater[u].image = banks[selector.bank]

\* The active bank passed the verification against the last request.
ActiveBankVerified ==
    /\ selector.revision = Len(committed)
    /\ selector.revision = 0 => banks[selector.bank] = Blank
    /\ selector.revision # 0 => /\ Acceptable(committed[selector.revision])
                              /\ verifyBankImage(committed[selector.revision], banks[selector.bank])

GenerationInv ==
    /\ GenerationTypeOK
    /\ Exclusive
    /\ CommitsAreSound
    /\ RecoveriesAreSound
    /\ ActiveBankVerified
    /\ RecoveredIsCommitted

-----------------------------------------------------------------------------
(* The operators. *)

\* otherBank names the bank that is not active.
LEMMA OtherBank ==
    ASSUME NEW b \in Banks
    PROVE  otherBank(b) \in Banks /\ otherBank(b) # b
BY Zenon DEF Banks, otherBank

\* The blank image is an image.
LEMMA BlankType == Blank \in BankImage /\ IdleUpdater \in UpdaterRecord
<1>1. Blank \in BankImage
      BY DEF Blank, BankImage
<1> QED
    BY <1>1, GenerationAssumption DEF IdleUpdater, UpdaterRecord, Generation, Banks

\* A map update leaves a list of entries.
LEMMA PutType ==
    ASSUME NEW entries \in Seq(MapEntry), NEW e \in MapEntry
    PROVE  Put(entries, e) \in Seq(MapEntry)
<1>1. [i \in DOMAIN entries |-> IF entries[i].key = e.key THEN e ELSE entries[i]] \in Seq(MapEntry)
  <2> DEFINE replaced == [i \in 1..Len(entries) |-> IF entries[i].key = e.key THEN e ELSE entries[i]]
  <2>1. replaced \in [1..Len(entries) -> MapEntry]
        OBVIOUS
  <2>2. Len(entries) \in Nat /\ DOMAIN entries = 1..Len(entries)
        OBVIOUS
  <2>3. replaced \in Seq(MapEntry)
        BY <2>1, <2>2, SMT
  <2> QED
      BY <2>2, <2>3, Zenon
<1> QED
    BY <1>1 DEF Put

\* So does one the store altered.
LEMMA AfterPutType ==
    ASSUME NEW entries \in Seq(MapEntry), NEW e \in MapEntry, NEW after \in AfterPut(entries, e)
    PROVE  after \in Seq(MapEntry)
<1>1. \A v \in Values : [e EXCEPT !.value = v] \in MapEntry
      BY Zenon DEF MapEntry
<1> QED
    BY <1>1, PutType, Zenon DEF AfterPut

\* A reset leaves an image.
LEMMA AfterResetType ==
    ASSUME NEW image \in BankImage, NEW after \in AfterReset(image)
    PROVE  after \in BankImage
<1>1. image.rules \in Seq(MapEntry) /\ image.profiles \in Seq(MapEntry) /\ <<>> \in Seq(MapEntry)
      BY DEF BankImage
<1> QED
    BY <1>1, Zenon DEF BankImage, AfterReset

\* What verification accepts is within the capacity the request was held to.
LEMMA VerifiedIsValid ==
    ASSUME NEW image \in BankImage, NEW bank \in BankImage,
           validateBankImage(image, RuleCapacity, ProfileCapacity), verifyBankImage(image, bank)
    PROVE  validateBankImage(bank, RuleCapacity, ProfileCapacity) /\ SameContent(image, bank)
BY GenerationAssumption, Zenon DEF BankImage, validateBankImage, verifyBankImage, equalEntries, SameContent

-----------------------------------------------------------------------------
(* Steps that leave the active bank alone. *)

\* The active bank stays verified as long as nobody writes to it.
LEMMA ActiveUntouched ==
    ASSUME ActiveBankVerified, selector' = selector, committed' = committed,
           banks'[selector.bank] = banks[selector.bank]
    PROVE  ActiveBankVerified'
BY Zenon DEF ActiveBankVerified

\* What Recover returned stays what it was.
LEMMA RecoveredUntouched ==
    ASSUME RecoveredIsCommitted, committed' = committed, recovered' = recovered
    PROVE  RecoveredIsCommitted'
BY Zenon DEF RecoveredIsCommitted

\* A call that has not begun its update holds nothing.
LEMMA StartStep ==
    ASSUME GenerationInv, NEW u \in Updaters, NEW rec \in UpdaterRecord,
           UNCHANGED <<selector, banks, lock, committed, recovered>>,
           updater' = [updater EXCEPT ![u] = rec],
           rec.pc = "begin", rec.call = "Commit" => Acceptable(rec.image)
    PROVE  GenerationInv'
<1> USE DEF GenerationInv
<1>1. GenerationTypeOK'
      BY Zenon DEF GenerationTypeOK
<1>2. Exclusive'
      BY Zenon DEF Exclusive, Holding, GenerationTypeOK
<1>3. CommitsAreSound'
      BY Zenon DEF CommitsAreSound, Inactive, GenerationTypeOK
<1>4. RecoveriesAreSound'
      BY Zenon DEF RecoveriesAreSound, GenerationTypeOK
<1> QED
    BY <1>1, <1>2, <1>3, <1>4, ActiveUntouched, RecoveredUntouched, Zenon

\* Commit starts with a valid image.
LEMMA CommitStep ==
    ASSUME GenerationInv, NEW u \in Updaters, NEW image \in Images, Commit(u, image)
    PROVE  GenerationInv'
<1> DEFINE rec == [IdleUpdater EXCEPT !.pc = "begin", !.image = image]
<1>1. image \in BankImage
      BY GenerationAssumption, Zenon
<1>2. rec \in UpdaterRecord /\ rec.pc = "begin" /\ rec.image = image
      BY <1>1, BlankType, Zenon DEF UpdaterRecord, IdleUpdater
<1> QED
    BY <1>2, StartStep, Zenon DEF Commit, Acceptable

\* So does Recover, with none.
LEMMA RecoverStep ==
    ASSUME GenerationInv, NEW u \in Updaters, Recover(u)
    PROVE  GenerationInv'
<1> DEFINE rec == [IdleUpdater EXCEPT !.pc = "begin", !.call = "Recover"]
<1>1. rec \in UpdaterRecord /\ rec.pc = "begin" /\ rec.call = "Recover"
      BY BlankType, Zenon DEF UpdaterRecord, IdleUpdater
<1> QED
    BY <1>1, StartStep, Zenon DEF Recover

\* Abandoning an update leaves the store as it is.
LEMMA AbandonStep ==
    ASSUME GenerationInv, NEW u \in Updaters, Abandon(u)
    PROVE  GenerationInv'
<1> USE DEF GenerationInv
<1>1. /\ UNCHANGED <<selector, banks, committed, recovered>>
      /\ updater' = [updater EXCEPT ![u] = IdleUpdater]
      /\ lock' = IF lock = u THEN NoUpdater ELSE lock
      BY Zenon DEF Abandon
<1>2. GenerationTypeOK'
      BY <1>1, BlankType, Zenon DEF GenerationTypeOK
<1>3. Exclusive' /\ CommitsAreSound' /\ RecoveriesAreSound'
      BY <1>1, Zenon DEF Exclusive, Holding, CommitsAreSound, RecoveriesAreSound, Inactive, GenerationTypeOK, IdleUpdater
<1> QED
    BY <1>1, <1>2, <1>3, ActiveUntouched, RecoveredUntouched, Zenon

\* The parts of the state a step of the holder reads.
LEMMA HolderFacts ==
    ASSUME GenerationInv, NEW u \in Updaters
    PROVE  /\ selector \in Generation /\ selector.bank \in Banks /\ selector.revision \in 0..MaxRevision
           /\ updater[u] \in UpdaterRecord /\ updater[u].image \in BankImage
           /\ Holding(u) => Inactive(u) = otherBank(selector.bank)
           /\ otherBank(selector.bank) \in Banks /\ otherBank(selector.bank) # selector.bank
           /\ banks \in [Banks -> BankImage]
BY OtherBank, Zenon DEF GenerationInv, GenerationTypeOK, Generation, UpdaterRecord, Exclusive, Inactive

\* The holder of the lock writes to the inactive bank while nobody else holds
\* anything.
LEMMA WriteStep ==
    ASSUME GenerationInv, NEW u \in Updaters, NEW rec \in UpdaterRecord, NEW image \in BankImage,
           lock \in {u, NoUpdater}, lock' = u, UNCHANGED <<selector, committed, recovered>>,
           updater' = [updater EXCEPT ![u] = rec],
           banks' = [banks EXCEPT ![otherBank(selector.bank)] = image],
           rec.pc = "write", rec.call = "Commit", rec.active = selector,
           selector.revision # MaxRevision, Acceptable(rec.image)
    PROVE  GenerationInv'
<1> USE DEF GenerationInv
<1>1. /\ otherBank(selector.bank) \in Banks /\ otherBank(selector.bank) # selector.bank
      /\ selector.bank \in Banks /\ banks \in [Banks -> BankImage]
      /\ updater \in [Updaters -> UpdaterRecord]
      BY HolderFacts, Zenon DEF GenerationTypeOK
<1>2. banks'[selector.bank] = banks[selector.bank]
      BY <1>1, Zenon
<1>3. \A w \in Updaters \ {u} : updater'[w] = updater[w] /\ ~Holding(w)
      BY <1>1, GenerationAssumption, Zenon DEF Exclusive
<1>4. updater'[u] = rec
      BY <1>1, Zenon
<1>5. GenerationTypeOK'
      BY <1>1, Zenon DEF GenerationTypeOK
<1>6. Exclusive'
      BY <1>3, <1>4, Zenon DEF Exclusive, Holding
<1>7. CommitsAreSound'
      BY <1>3, <1>4, Zenon DEF CommitsAreSound, Holding
<1>8. RecoveriesAreSound'
      BY <1>3, <1>4, Zenon DEF RecoveriesAreSound, Holding
<1> QED
    BY <1>2, <1>5, <1>6, <1>7, <1>8, ActiveUntouched, RecoveredUntouched, Zenon

\* BeginUpdate, Active and Reset of a commit.
LEMMA BeginCommitStep ==
    ASSUME GenerationInv, NEW u \in Updaters, BeginCommit(u)
    PROVE  GenerationInv'
<1> DEFINE rec == [updater[u] EXCEPT !.pc = "write", !.active = selector]
<1>1. PICK image \in AfterReset(banks[otherBank(selector.bank)]) :
          banks' = [banks EXCEPT ![otherBank(selector.bank)] = image]
      BY Zenon DEF BeginCommit
<1>2. image \in BankImage
      BY HolderFacts, AfterResetType, Zenon
<1>3. rec \in UpdaterRecord /\ rec.pc = "write" /\ rec.call = "Commit" /\ rec.active = selector
          /\ rec.image = updater[u].image
      BY HolderFacts, Zenon DEF UpdaterRecord, BeginCommit
<1>4. Acceptable(updater[u].image)
      BY Zenon DEF BeginCommit, GenerationInv, CommitsAreSound
<1> QED
    BY <1>1, <1>2, <1>3, <1>4, WriteStep, Zenon DEF BeginCommit

\* A put of a rule or of a profile.
LEMMA PutEntryStep ==
    ASSUME GenerationInv, NEW u \in Updaters, PutEntry(u)
    PROVE  GenerationInv'
<1> DEFINE b == otherBank(selector.bank)
           rec == [updater[u] EXCEPT !.written = updater[u].written + 1]
           image == updater[u].image
           n == updater[u].written + 1
<1>1. /\ updater[u].pc = "write" /\ Holding(u) /\ Inactive(u) = b
      /\ lock = u /\ updater[u].active = selector
      BY HolderFacts, Zenon DEF PutEntry, Holding, GenerationInv, Exclusive
<1>2. rec \in UpdaterRecord /\ rec.pc = "write" /\ rec.call = "Commit" /\ rec.active = selector
          /\ rec.image = image /\ selector.revision # MaxRevision /\ Acceptable(image)
      BY <1>1, HolderFacts DEF UpdaterRecord, GenerationInv, CommitsAreSound
<1>3. banks[b] \in BankImage /\ image \in BankImage
      BY HolderFacts, Zenon
<1>4. \E after \in BankImage : banks' = [banks EXCEPT ![b] = after]
  <2>1. ASSUME NEW entries \in AfterPut(banks[b].rules, image.rules[n]), n \in DOMAIN image.rules,
               banks' = [banks EXCEPT ![b].rules = entries]
        PROVE  \E after \in BankImage : banks' = [banks EXCEPT ![b] = after]
    <3>1. image.rules[n] \in MapEntry /\ banks[b].rules \in Seq(MapEntry)
          BY <1>3, <2>1 DEF BankImage
    <3>2. entries \in Seq(MapEntry)
          BY <3>1, AfterPutType, Zenon
    <3>3. [banks[b] EXCEPT !.rules = entries] \in BankImage
          BY <1>3, <3>2, Zenon DEF BankImage
    <3> QED
        BY <2>1, <3>3, Zenon
  <2>2. ASSUME NEW entries \in AfterPut(banks[b].profiles, image.profiles[n - Len(image.rules)]),
               n - Len(image.rules) \in DOMAIN image.profiles,
               banks' = [banks EXCEPT ![b].profiles = entries]
        PROVE  \E after \in BankImage : banks' = [banks EXCEPT ![b] = after]
    <3>1. image.profiles[n - Len(image.rules)] \in MapEntry /\ banks[b].profiles \in Seq(MapEntry)
          BY <1>3, <2>2 DEF BankImage
    <3>2. entries \in Seq(MapEntry)
          BY <3>1, AfterPutType, Zenon
    <3>3. [banks[b] EXCEPT !.profiles = entries] \in BankImage
          BY <1>3, <3>2, Zenon DEF BankImage
    <3> QED
        BY <2>2, <3>3, Zenon
  <2> QED
      BY <1>1, <2>1, <2>2, Zenon DEF PutEntry
<1>5. UNCHANGED <<selector, lock, committed, recovered>> /\ updater' = [updater EXCEPT ![u] = rec]
      BY Zenon DEF PutEntry
<1> QED
    BY <1>1, <1>2, <1>4, <1>5, WriteStep, Zenon

\* Verification writes nothing.
LEMMA ReadbackStep ==
    ASSUME GenerationInv, NEW u \in Updaters, Readback(u)
    PROVE  GenerationInv'
<1> USE DEF GenerationInv
<1>1. /\ UNCHANGED <<selector, banks, lock, committed, recovered>>
      /\ updater[u].pc = "write" /\ Holding(u)
      /\ updater' = [updater EXCEPT ![u].pc = "activate"]
      /\ verifyBankImage(updater[u].image, banks[Inactive(u)])
      BY Zenon DEF Readback, Holding
<1>2. GenerationTypeOK'
  <2>1. [updater[u] EXCEPT !.pc = "activate"] \in UpdaterRecord
        BY HolderFacts, Zenon DEF UpdaterRecord
  <2> QED
      BY <1>1, <2>1, Zenon DEF GenerationTypeOK
<1>3. /\ \A w \in Updaters \ {u} : updater'[w] = updater[w]
      /\ updater'[u] = [updater[u] EXCEPT !.pc = "activate"]
      BY <1>1, Zenon DEF GenerationTypeOK
<1>4. /\ updater'[u].pc = "activate" /\ updater'[u].image = updater[u].image
      /\ updater'[u].active = updater[u].active /\ updater'[u].call = updater[u].call
      BY <1>3, HolderFacts, Zenon DEF UpdaterRecord
<1>5. Exclusive'
      BY <1>1, <1>3, <1>4, Zenon DEF Exclusive, Holding
<1>6. CommitsAreSound'
      BY <1>1, <1>3, <1>4 DEF CommitsAreSound, Inactive
<1>7. RecoveriesAreSound'
      BY <1>1, <1>3, <1>4 DEF RecoveriesAreSound
<1> QED
    BY <1>1, <1>2, <1>5, <1>6, <1>7, ActiveUntouched, RecoveredUntouched, Zenon

\* The switch puts the verified image in force.
LEMMA ActivateStep ==
    ASSUME GenerationInv, NEW u \in Updaters, Activate(u)
    PROVE  GenerationInv'
<1> USE DEF GenerationInv
<1>1. /\ updater[u].pc = "activate" /\ Holding(u) /\ updater[u].active = selector
      /\ UNCHANGED <<banks, recovered>> /\ lock' = NoUpdater /\ lock = u
      /\ updater' = [updater EXCEPT ![u] = IdleUpdater]
      /\ committed' = Append(committed, updater[u].image)
      /\ selector' = [revision |-> selector.revision + 1, bank |-> otherBank(selector.bank)]
      BY Zenon DEF Activate, CloseUpdate, NextGeneration, Inactive, Holding, Exclusive
<1>2. /\ selector.revision # MaxRevision /\ Acceptable(updater[u].image)
      /\ verifyBankImage(updater[u].image, banks[otherBank(selector.bank)])
      BY <1>1, HolderFacts, Zenon DEF CommitsAreSound
<1>3. selector' \in Generation /\ selector'.revision = selector.revision + 1
          /\ selector'.bank = otherBank(selector.bank)
      BY <1>1, <1>2, HolderFacts, GenerationAssumption DEF Generation
<1>4. /\ committed \in Seq(BankImage) /\ committed' \in Seq(BankImage)
      /\ Len(committed') = Len(committed) + 1
      /\ committed'[Len(committed) + 1] = updater[u].image
      /\ \A i \in 1..Len(committed) : committed'[i] = committed[i]
      BY <1>1, HolderFacts DEF GenerationTypeOK
<1>5. GenerationTypeOK'
      BY <1>1, <1>3, <1>4, BlankType, Zenon DEF GenerationTypeOK
<1>6. \A w \in Updaters : ~Holding(w)' /\ (w # u => updater'[w] = updater[w]) /\ updater'[u].pc = "idle"
      BY <1>1, Zenon DEF Exclusive, Holding, GenerationTypeOK, IdleUpdater
<1>7. Exclusive' /\ CommitsAreSound' /\ RecoveriesAreSound'
      BY <1>6, Zenon DEF Exclusive, CommitsAreSound, RecoveriesAreSound, Holding
<1>8. ActiveBankVerified'
      BY <1>1, <1>2, <1>3, <1>4, HolderFacts DEF ActiveBankVerified
<1>9. RecoveredIsCommitted'
      BY <1>1, <1>4 DEF RecoveredIsCommitted
<1> QED
    BY <1>5, <1>7, <1>8, <1>9, Zenon

\* Recover finds a valid image in the active bank.
LEMMA BeginRecoverStep ==
    ASSUME GenerationInv, NEW u \in Updaters, BeginRecover(u)
    PROVE  GenerationInv'
<1> USE DEF GenerationInv
<1> DEFINE image == banks[selector.bank]
           rec == [updater[u] EXCEPT !.pc = "clear", !.active = selector, !.image = image]
<1>1. selector.revision # 0 /\ UNCHANGED <<selector, banks, committed>> /\ lock = NoUpdater
          /\ updater[u].call = "Recover"
      BY Zenon DEF BeginRecover
<1>2. image \in BankImage /\ committed[selector.revision] \in BankImage
      BY <1>1, HolderFacts, GenerationAssumption, Zenon DEF ActiveBankVerified, Acceptable
<1>3. validateBankImage(image, RuleCapacity, ProfileCapacity)
      BY <1>1, <1>2, VerifiedIsValid, Zenon DEF ActiveBankVerified, Acceptable
<1>4. lock' = u /\ updater' = [updater EXCEPT ![u] = rec] /\ UNCHANGED recovered
      BY <1>3, Zenon DEF BeginRecover
<1>5. /\ rec \in UpdaterRecord /\ rec.pc = "clear" /\ rec.active = selector
      /\ rec.image = image /\ rec.call = "Recover"
      BY <1>1, <1>2, HolderFacts, Zenon DEF UpdaterRecord
<1>6. GenerationTypeOK'
      BY <1>1, <1>4, <1>5, Zenon DEF GenerationTypeOK
<1>7. updater'[u] = rec /\ \A w \in Updaters \ {u} : updater'[w] = updater[w] /\ ~Holding(w)
      BY <1>1, <1>4, GenerationAssumption, Zenon DEF GenerationTypeOK, Exclusive
<1>8. Exclusive'
      BY <1>1, <1>4, <1>5, <1>7, Zenon DEF Exclusive, Holding
<1> HIDE DEF rec
<1>9. CommitsAreSound'
      BY <1>1, <1>5, <1>7, Zenon DEF CommitsAreSound, Holding, Inactive
<1>10. RecoveriesAreSound'
      BY <1>1, <1>5, <1>7, Zenon DEF RecoveriesAreSound, Holding
<1> QED
    BY <1>1, <1>4, <1>6, <1>8, <1>9, <1>10, ActiveUntouched, RecoveredUntouched, Zenon

\* Recover clears the other bank and returns the active one.
LEMMA ClearStagingStep ==
    ASSUME GenerationInv, NEW u \in Updaters, ClearStaging(u)
    PROVE  GenerationInv'
<1> USE DEF GenerationInv
<1> DEFINE result == [generation |-> selector, image |-> banks[selector.bank], valid |-> TRUE]
<1>1. /\ updater[u].pc = "clear" /\ Holding(u) /\ updater[u].active = selector /\ lock = u
      /\ updater[u].image = banks[selector.bank] /\ selector.revision # 0
      /\ UNCHANGED <<selector, committed>> /\ lock' = NoUpdater
      /\ updater' = [updater EXCEPT ![u] = IdleUpdater]
      BY Zenon DEF ClearStaging, CloseUpdate, Holding, Exclusive, RecoveriesAreSound
<1>2. recovered' = recovered \cup {result}
      BY <1>1, Zenon DEF ClearStaging
<1>3. PICK after \in AfterReset(banks[otherBank(selector.bank)]) :
          banks' = [banks EXCEPT ![otherBank(selector.bank)] = after]
      BY <1>1, HolderFacts, Zenon DEF ClearStaging
<1>4. after \in BankImage
      BY HolderFacts, AfterResetType, Zenon
<1>5. banks'[selector.bank] = banks[selector.bank] /\ banks' \in [Banks -> BankImage]
      BY <1>3, <1>4, HolderFacts, Zenon
<1>6. result \in [generation : Generation, image : BankImage, valid : BOOLEAN]
      BY HolderFacts, Zenon
<1>7. GenerationTypeOK'
      BY <1>1, <1>2, <1>5, <1>6, BlankType, Zenon DEF GenerationTypeOK
<1>8. \A w \in Updaters : ~Holding(w)' /\ (w # u => updater'[w] = updater[w]) /\ updater'[u].pc = "idle"
      BY <1>1, Zenon DEF Exclusive, Holding, GenerationTypeOK, IdleUpdater
<1>9. Exclusive' /\ CommitsAreSound' /\ RecoveriesAreSound'
      BY <1>8, Zenon DEF Exclusive, CommitsAreSound, RecoveriesAreSound, Holding
<1>10. committed[selector.revision] \in BankImage /\ selector.revision \in DOMAIN committed
      BY <1>1, HolderFacts, GenerationAssumption DEF ActiveBankVerified, Acceptable, GenerationTypeOK
<1>11. SameContent(committed[selector.revision], banks[selector.bank])
      BY <1>1, <1>10, HolderFacts, VerifiedIsValid, Zenon DEF ActiveBankVerified, Acceptable
<1>12. RecoveredIsCommitted'
      BY <1>1, <1>2, <1>10, <1>11 DEF RecoveredIsCommitted
<1> QED
    BY <1>1, <1>5, <1>7, <1>9, <1>12, ActiveUntouched, Zenon

-----------------------------------------------------------------------------
(* The theorems. *)

\* The invariant holds throughout, whatever the store does with the writes.
THEOREM GenerationInvariance == GenerationSpec => []GenerationInv
<1>1. GenerationInit => GenerationInv
  <2> SUFFICES ASSUME GenerationInit PROVE GenerationInv
      BY Zenon
  <2>1. GenerationTypeOK
        BY BlankType, GenerationAssumption DEF GenerationInit, GenerationTypeOK, Generation, Banks
  <2>2. \A u \in Updaters : updater[u].pc = "idle"
        BY Zenon DEF GenerationInit, IdleUpdater
  <2>3. Exclusive /\ CommitsAreSound /\ RecoveriesAreSound
        BY <2>2, Zenon DEF Exclusive, Holding, CommitsAreSound, RecoveriesAreSound
  <2>4. ActiveBankVerified /\ RecoveredIsCommitted
        BY Zenon DEF GenerationInit, ActiveBankVerified, RecoveredIsCommitted, Banks
  <2> QED
      BY <2>1, <2>3, <2>4, Zenon DEF GenerationInv
<1>2. GenerationInv /\ [GenerationNext]_generationVars => GenerationInv'
  <2> SUFFICES ASSUME GenerationInv, [GenerationNext]_generationVars PROVE GenerationInv'
      BY Zenon
  <2>1. CASE UNCHANGED generationVars
        BY <2>1, Zenon DEF generationVars, GenerationInv, GenerationTypeOK, Exclusive, Holding, CommitsAreSound, Inactive,
                    RecoveriesAreSound, ActiveBankVerified, RecoveredIsCommitted
  <2>2. CASE GenerationNext
        BY <2>2, CommitStep, RecoverStep, BeginCommitStep, PutEntryStep, ReadbackStep,
           ActivateStep, BeginRecoverStep, ClearStagingStep, AbandonStep, Zenon DEF GenerationNext
  <2> QED
      BY <2>1, <2>2, Zenon
<1> QED
    BY <1>1, <1>2, PTL DEF GenerationSpec

\* The banks, the selector, the updaters and what they read keep their types.
THEOREM GenerationTypeCorrect == GenerationSpec => []GenerationTypeOK
<1>1. GenerationInv => GenerationTypeOK
      BY Zenon DEF GenerationInv
<1> QED
    BY <1>1, GenerationInvariance, PTL

\* Commit keeps the active bank equal to the last committed request through
\* failed, cancelled and crashed updates and unreliable writes.
THEOREM ActiveBankHoldsTheCommitted == GenerationSpec => []ActiveBankIsCommitted
<1>1. GenerationInv => ActiveBankIsCommitted
      BY Zenon DEF GenerationInv, ActiveBankVerified, ActiveBankIsCommitted, verifyBankImage, SameContent
<1> QED
    BY <1>1, GenerationInvariance, PTL

\* Recover returns what was committed and never refuses it.
THEOREM RecoverIsExact == GenerationSpec => []RecoveredIsCommitted
<1>1. GenerationInv => RecoveredIsCommitted
      BY Zenon DEF GenerationInv
<1> QED
    BY <1>1, GenerationInvariance, PTL

\* Every step but Activate leaves the selector and the bank it names alone.
LEMMA OnlyActivateSwitches ==
    ASSUME GenerationInv, [GenerationNext]_generationVars, \A u \in Updaters : ~Activate(u)
    PROVE  selector' = selector /\ banks'[selector.bank] = banks[selector.bank]
<1>1. CASE UNCHANGED generationVars
      BY <1>1, Zenon DEF generationVars
<1>2. ASSUME NEW u \in Updaters, PutEntry(u)
      PROVE  selector' = selector /\ banks'[selector.bank] = banks[selector.bank]
  <2>1. Inactive(u) # selector.bank
        BY <1>2, HolderFacts, Zenon DEF PutEntry, Holding
  <2> QED
      BY <1>2, <2>1, HolderFacts, Zenon DEF PutEntry
<1>3. ASSUME NEW u \in Updaters, ClearStaging(u)
      PROVE  selector' = selector /\ banks'[selector.bank] = banks[selector.bank]
  <2>1. Inactive(u) # selector.bank
        BY <1>3, HolderFacts, Zenon DEF ClearStaging, Holding
  <2> QED
      BY <1>3, <2>1, HolderFacts, Zenon DEF ClearStaging
<1>4. ASSUME NEW u \in Updaters, BeginCommit(u)
      PROVE  selector' = selector /\ banks'[selector.bank] = banks[selector.bank]
      BY <1>4, HolderFacts, Zenon DEF BeginCommit
<1>5. ASSUME NEW u \in Updaters,
             \/ \E image \in Images : Commit(u, image)
             \/ Recover(u) \/ Readback(u) \/ BeginRecover(u) \/ Abandon(u)
      PROVE  selector' = selector /\ banks'[selector.bank] = banks[selector.bank]
      BY <1>5, Zenon DEF Commit, Recover, Readback, BeginRecover, Abandon
<1> QED
    BY <1>1, <1>2, <1>3, <1>4, <1>5, Zenon DEF GenerationNext

\* Activate switches to the content of a valid request.
LEMMA ActivateIsASwitch ==
    ASSUME GenerationInv, NEW u \in Updaters, Activate(u)
    PROVE  Switching!Switch
<1>1. /\ selector' = [revision |-> selector.revision + 1, bank |-> otherBank(selector.bank)]
      /\ banks' = banks
      BY Zenon DEF Activate, NextGeneration, Inactive
<1>2. /\ Acceptable(updater[u].image)
      /\ verifyBankImage(updater[u].image, banks[otherBank(selector.bank)])
      BY HolderFacts, Zenon DEF Activate, GenerationInv, CommitsAreSound, Holding
<1>3. Content(banks[otherBank(selector.bank)]) = Content(updater[u].image)
      BY <1>2, Zenon DEF verifyBankImage, equalEntries, Content
<1>4. Content(updater[u].image) \in ValidContents
      BY <1>2, Zenon DEF ValidContents, Acceptable
<1>5. Content(banks[selector.bank])' = Content(banks[otherBank(selector.bank)])
      BY <1>1, Zenon DEF Content, Elements
<1> QED
    BY <1>1, <1>3, <1>4, <1>5, Zenon DEF Switching!Switch

\* The two banks, the readback and the compare-and-switch of Commit implement an
\* atomic change of policy.
THEOREM CommitIsAtomic == GenerationSpec => ImplementsPolicySwitch
<1>1. GenerationInit => Switching!SwitchInit
      BY DEF GenerationInit, Switching!SwitchInit, Content, Elements, Banks
<1>2. GenerationInv /\ [GenerationNext]_generationVars => [Switching!Switch]_(Switching!switchVars)
  <2> SUFFICES ASSUME GenerationInv, [GenerationNext]_generationVars, ~Switching!Switch
               PROVE  UNCHANGED Switching!switchVars
      BY Zenon
  <2>1. selector' = selector /\ banks'[selector.bank] = banks[selector.bank]
        BY OnlyActivateSwitches, ActivateIsASwitch, Zenon
  <2> QED
      BY <2>1, Zenon DEF Switching!switchVars, Content, Elements
<1> QED
    BY <1>1, <1>2, GenerationInvariance, PTL DEF GenerationSpec, ImplementsPolicySwitch, Switching!SwitchSpec

-----------------------------------------------------------------------------
(* Containment. *)

NotYet == [enforced |-> FALSE, effective |-> "alert"]

\* Until Contain returns, nothing has been written and nothing is claimed; what it
\* returns says whether cgroup.kill was written.
ContainInv ==
    /\ pc \in {"decided", "authorize", "core", "open", "recheck", "kill", "returned", "emitted"}
    /\ signalled \in BOOLEAN /\ error \in BOOLEAN /\ moved \in BOOLEAN
    /\ pc \notin {"returned", "emitted"} => ~signalled /\ outcome = "not_attempted" /\ final = NotYet
    /\ pc = "returned" => /\ outcome = "killed" <=> signalled
                          /\ error <=> ~signalled
                          /\ final = NotYet
    /\ pc = "kill" => moved \/ ~cgroupContains(core)
    /\ ContainmentIsReported

\* What Return leaves behind.
LEMMA ReturnStep ==
    ASSUME ContainInv, pc \notin {"returned", "emitted"}, NEW o, Return(o),
           signalled' \in BOOLEAN, o = "killed" <=> signalled'
    PROVE  ContainInv'
<1>1. /\ pc' = "returned" /\ outcome' = o /\ error' = (o # "killed")
      /\ moved' = moved /\ final' = final
      BY Zenon DEF Return
<1>2. final = NotYet /\ moved \in BOOLEAN
      BY Zenon DEF ContainInv
<1> QED
    BY <1>1, <1>2, Zenon DEF ContainInv, ContainmentIsReported

\* A look at Core that does not find it in the target.
LEMMA LookStep ==
    ASSUME ContainInv, pc \notin {"returned", "emitted"}, NEW n \in {"open", "kill"}, LookAtCore(n),
           ~cgroupContains(core), UNCHANGED signalled
    PROVE  ContainInv'
<1>1. /\ pc' = n /\ moved' = FALSE /\ core' = core
      /\ outcome' = outcome /\ error' = error /\ final' = final /\ signalled' = signalled
      BY Zenon DEF LookAtCore, world
<1>2. ~signalled /\ signalled \in BOOLEAN /\ error \in BOOLEAN /\ outcome = "not_attempted" /\ final = NotYet
      BY Zenon DEF ContainInv
<1>3. /\ pc' \in {"decided", "authorize", "core", "open", "recheck", "kill", "returned", "emitted"}
      /\ pc' # "returned" /\ pc' # "emitted" /\ moved' \in BOOLEAN
      BY <1>1, Zenon
<1>4. (pc = "kill" => moved \/ ~cgroupContains(core))'
      BY <1>1, Zenon DEF cgroupContains
<1>5. ContainmentIsReported'
      BY <1>3, Zenon DEF ContainmentIsReported
<1>6. (~signalled /\ outcome = "not_attempted" /\ final = NotYet)'
      BY <1>1, <1>2
<1> QED
    BY <1>1, <1>2, <1>3, <1>4, <1>5, <1>6, Zenon DEF ContainInv, ContainmentIsReported

LEMMA ContainInvStep == ContainInv /\ [ContainNext]_containVars => ContainInv'
<1> SUFFICES ASSUME ContainInv, [ContainNext]_containVars PROVE ContainInv'
    BY Zenon
<1>1. CASE UNCHANGED containVars
      BY <1>1, Zenon DEF ContainInv, ContainmentIsReported, containVars, cgroupContains
<1>2. ASSUME NEW ok \in BOOLEAN, containmentWinner(ok) PROVE ContainInv'
      BY <1>2 DEF ContainInv, ContainmentIsReported, containmentWinner, NotYet, world, cgroupContains
<1>3. ASSUME NEW ok \in BOOLEAN, Authorize(ok) PROVE ContainInv'
  <2>1. CASE ok
        BY <1>3, <2>1, Zenon DEF ContainInv, ContainmentIsReported, Authorize, world, cgroupContains
  <2>2. CASE ~ok
        BY <1>3, <2>2, ReturnStep, Zenon DEF ContainInv, Authorize
  <2> QED
      BY <2>1, <2>2, Zenon
<1>4. ASSUME NEW ok \in BOOLEAN, CurrentCore(ok) PROVE ContainInv'
      BY <1>4, ReturnStep, LookStep, Zenon DEF ContainInv, CurrentCore
<1>5. ASSUME NEW ok \in BOOLEAN, OpenCgroup(ok) PROVE ContainInv'
  <2>1. CASE pc' = "recheck" /\ UNCHANGED <<world, moved, looked, outcome, error, final, signalled>>
        BY <1>5, <2>1 DEF ContainInv, ContainmentIsReported, OpenCgroup, world, cgroupContains
  <2> QED
      BY <1>5, <2>1, ReturnStep, Zenon DEF ContainInv, OpenCgroup
<1>6. ASSUME NEW ok \in BOOLEAN, RevalidateCore(ok) PROVE ContainInv'
      BY <1>6, ReturnStep, LookStep, Zenon DEF ContainInv, RevalidateCore
<1>7. ASSUME NEW ok \in BOOLEAN, Kill(ok) PROVE ContainInv'
  <2>1. pc = "kill" /\ ~signalled /\ signalled \in BOOLEAN
        BY <1>7, Zenon DEF Kill, ContainInv
  <2>2. CASE Return("killed") /\ signalled' = TRUE
        BY <2>1, <2>2, ReturnStep, Zenon
  <2>3. CASE (Return("failed") \/ Return("not_attempted")) /\ UNCHANGED signalled
        BY <2>1, <2>3, ReturnStep, Zenon
  <2> QED
      BY <1>7, <2>2, <2>3, Zenon DEF Kill
<1>8. CASE Mark
  <2>1. /\ pc = "returned" /\ pc' = "emitted" /\ UNCHANGED <<error, signalled, moved>>
        BY <1>8, Zenon DEF Mark
  <2>2. CASE signalled
    <3>1. outcome' = "killed" /\ final' = [enforced |-> TRUE, effective |-> "contain"]
          BY <1>8, <2>1, <2>2, Zenon DEF Mark, ContainInv
    <3> QED
        BY <2>1, <2>2, <3>1, Zenon DEF ContainInv, ContainmentIsReported
  <2>3. CASE ~signalled
    <3>1. outcome' # "killed" /\ final' = NotYet
          BY <1>8, <2>1, <2>3, Zenon DEF Mark, ContainInv
    <3> QED
        BY <2>1, <2>3, <3>1, Zenon DEF ContainInv, ContainmentIsReported, NotYet
  <2> QED
      BY <2>2, <2>3, Zenon DEF ContainInv
<1>9. ASSUME ChangeChildren \/ RemoveTarget \/ \E c \in CoreCgroups : MoveCore(c) PROVE ContainInv'
  <2>1. /\ UNCHANGED <<pc, outcome, error, signalled, final>>
        /\ moved' \in BOOLEAN
        /\ moved' \/ (moved' = moved /\ core' = core)
        BY <1>9, Zenon DEF ChangeChildren, RemoveTarget, MoveCore, ContainInv
  <2> QED
      BY <2>1 DEF ContainInv, ContainmentIsReported, cgroupContains
<1> QED
    BY <1>1, <1>2, <1>3, <1>4, <1>5, <1>6, <1>7, <1>8, <1>9, Zenon DEF ContainNext, ContainStep

LEMMA ContainInvInit == ContainInit => ContainInv
BY Zenon DEF ContainInit, ContainInv, ContainmentIsReported, NotYet

\* A decision is reported as an enforced containment exactly when cgroup.kill was
\* written, for any cgroups and any interference (Executor.Contain).
THEOREM ContainmentsAreReported == ContainSpec => []ContainmentIsReported
<1>1. ContainInv => ContainmentIsReported
      BY Zenon DEF ContainInv
<1> QED
    BY <1>1, ContainInvInit, ContainInvStep, PTL DEF ContainSpec

\* A kill reaches Core only when Core moved into the target after the second look.
THEOREM KillsSpareCore == ContainSpec => KillSparesCore
<1>1. ContainInv /\ [ContainNext]_containVars
          => [signalled' /\ ~signalled => moved \/ ~cgroupContains(core)]_containVars
  <2> SUFFICES ASSUME ContainInv, ContainNext, signalled', ~signalled
               PROVE  moved \/ ~cgroupContains(core)
      BY Zenon
  <2>1. pc = "kill"
        BY Zenon DEF ContainNext, ContainStep, containmentWinner, Authorize, CurrentCore, OpenCgroup,
               RevalidateCore, Kill, Mark, ChangeChildren, RemoveTarget, MoveCore
  <2> QED
      BY <2>1, Zenon DEF ContainInv
<1> QED
    BY <1>1, ContainInvInit, ContainInvStep, PTL DEF ContainSpec, KillSparesCore

-----------------------------------------------------------------------------
(* The timeline. *)

Checkpoints == [id : Nat, run : {c.run : c \in Claims}, type : {c.type : c \in Claims},
                tool : {c.tool : c \in Claims}, at : ReceiptTimes]

\* The three kinds of row, as the worker writes them.
IsClaim(row) ==
    \E n, r, t : row = [source |-> "agent_claim", id |-> n, run |-> r, at |-> t, severity |-> 1]
IsFact(row) ==
    \E n, r, t, v, f, k, c :
        row = [source |-> "kernel_fact", id |-> n, run |-> r, at |-> t, severity |-> v,
               fact |-> f, known |-> k, correlation |-> c]
IsDecision(row) ==
    \E n, r, t : row = [source |-> "policy_decision", id |-> n, run |-> r, at |-> t, severity |-> 1]

Key(row) == <<row.source, row.id>>

\* A row's number was drawn before, from the counter of its kind, and names
\* no other row: pruning and refusals only leave numbers out.
Drawn(row) ==
    /\ row.id \in Nat
    /\ \/ IsClaim(row) /\ row.id <= Len(seen)
       \/ IsFact(row) /\ row.id <= sequence
       \/ IsDecision(row) /\ row.id <= sequence

TimelineInv ==
    /\ seen \in Seq(Checkpoints)
    /\ sequence \in Nat
    /\ \A row \in evidenceRows : Drawn(row)
    /\ \A row, other \in evidenceRows : Key(row) = Key(other) => row = other

-----------------------------------------------------------------------------
(* What Evidence makes of one row. *)

LEMMA LinksAreKept ==
  ASSUME NEW correlation, NEW ids
  PROVE  LET c == InSnapshot(correlation, ids)
         IN  /\ c.selected \in ids \cup {NoLink}
             /\ \A d \in c.candidates : d.id \in ids
<1>1. CASE \/ correlation.selected # NoLink /\ correlation.selected \notin ids
           \/ {c \in correlation.candidates : c.id \in ids} # correlation.candidates
      BY <1>1, Zenon DEF InSnapshot
<1>2. CASE ~ \/ correlation.selected # NoLink /\ correlation.selected \notin ids
             \/ {c \in correlation.candidates : c.id \in ids} # correlation.candidates
  <2>1. InSnapshot(correlation, ids) = correlation
        BY <1>2, Zenon DEF InSnapshot
  <2> QED
      BY <1>2, <2>1, Zenon
<1> QED
    BY <1>1, <1>2, Zenon

LEMMA ItemsKeepTheirKeys ==
  ASSUME NEW row, NEW ids, IsClaim(row) \/ IsFact(row) \/ IsDecision(row)
  PROVE  LET item == ServedItem(row, ids)
         IN  /\ item.source = row.source /\ item.id = row.id /\ item.run = row.run
             /\ row.source = "kernel_fact" =>
                   item.correlation = InSnapshot(row.correlation, ids)
             /\ row.source # "kernel_fact" => item = row
<1>1. CASE IsClaim(row) \/ IsDecision(row)
      BY <1>1 DEF IsClaim, IsDecision, ServedItem
<1>2. CASE IsFact(row)
      BY <1>2, Zenon DEF IsFact, ServedItem
<1> QED
    BY <1>1, <1>2, Zenon

LEMMA ClaimsAreServed ==
  ASSUME NEW items, \A row \in items : IsClaim(row) \/ IsFact(row) \/ IsDecision(row)
  PROVE  ClaimIds(Served(items)) = ClaimIds(items)
<1> DEFINE ids == ClaimIds(items)
<1>1. \A row \in items : /\ ServedItem(row, ids).source = row.source
                         /\ ServedItem(row, ids).id = row.id
      BY ItemsKeepTheirKeys, Zenon
<1>2. ASSUME NEW n \in ClaimIds(Served(items)) PROVE n \in ids
  <2>1. PICK item \in Served(items) : item.source = "agent_claim" /\ item.id = n
        BY <1>2, Zenon DEF ClaimIds
  <2>2. PICK row \in items : item = ServedItem(row, ids)
        BY <2>1, Zenon DEF Served
  <2> QED
      BY <1>1, <2>1, <2>2, Zenon DEF ClaimIds
<1>3. ASSUME NEW n \in ids PROVE n \in ClaimIds(Served(items))
  <2>1. PICK row \in items : row.source = "agent_claim" /\ row.id = n
        BY <1>3, Zenon DEF ClaimIds
  <2>2. ServedItem(row, ids) \in Served(items)
        BY <2>1, Zenon DEF Served
  <2>3. ServedItem(row, ids).source = "agent_claim" /\ ServedItem(row, ids).id = n
        BY <1>1, <2>1, Zenon
  <2> HIDE DEF ids
  <2> QED
      BY <2>2, <2>3, Zenon DEF ClaimIds
<1> QED
    BY <1>2, <1>3, Zenon

LEMMA SnapshotIsServed ==
  ASSUME TimelineInv, NEW run, NEW s \in Snapshots(run)
  PROVE  Build(run, Served(s))
<1> DEFINE ids == ClaimIds(s)
<1>1. s \subseteq evidenceRows /\ \A row \in s : row.run = run
      BY Zenon DEF Snapshots
<1>2. \A row \in s : IsClaim(row) \/ IsFact(row) \/ IsDecision(row)
      BY <1>1, Zenon DEF TimelineInv, Drawn
<1>3. ClaimIds(Served(s)) = ids
      BY <1>2, ClaimsAreServed, Zenon
<1>4. ASSUME NEW item \in Served(s), NEW other \in Served(s), item # other
      PROVE  <<item.source, item.id>> # <<other.source, other.id>>
  <2>1. PICK row \in s : item = ServedItem(row, ids)
        BY Zenon DEF Served
  <2>2. PICK one \in s : other = ServedItem(one, ids)
        BY Zenon DEF Served
  <2>3. row # one
        BY <1>4, <2>1, <2>2, Zenon
  <2>4. Key(row) # Key(one)
        BY <1>1, <2>3, Zenon DEF TimelineInv
  <2>5. item.source = row.source /\ item.id = row.id
        BY <1>2, <2>1, ItemsKeepTheirKeys, Zenon
  <2>6. other.source = one.source /\ other.id = one.id
        BY <1>2, <2>2, ItemsKeepTheirKeys, Zenon
  <2> QED
      BY <2>4, <2>5, <2>6, Zenon DEF Key
<1>5. ASSUME NEW item \in Served(s), item.source = "kernel_fact"
      PROVE  /\ item.run = run
             /\ item.correlation.selected \in ids \cup {NoLink}
             /\ \A c \in item.correlation.candidates : c.id \in ids
  <2>1. PICK row \in s : item = ServedItem(row, ids)
        BY Zenon DEF Served
  <2>2. /\ row.source = "kernel_fact" /\ item.run = row.run
        /\ item.correlation = InSnapshot(row.correlation, ids)
        BY <1>2, <1>5, <2>1, ItemsKeepTheirKeys, Zenon
  <2> QED
      BY <1>1, <2>2, LinksAreKept, Zenon
<1> QED
    BY <1>3, <1>4, <1>5, Zenon DEF Build, validateReferences

-----------------------------------------------------------------------------
(* The invariant. *)

LEMMA TimelineInvInit == TimelineInit => TimelineInv
<1>1. <<>> \in Seq(Checkpoints)
      OBVIOUS
<1> QED
    BY <1>1 DEF TimelineInit, TimelineInv

\* Rows with numbers not drawn before collide with none.
LEMMA FreshRows ==
  ASSUME TimelineInv, NEW new,
         seen' \in Seq(Checkpoints), sequence' \in Nat,
         Len(seen') >= Len(seen), sequence' >= sequence,
         evidenceRows' \subseteq evidenceRows \cup new,
         \A row \in new : /\ Drawn(row)'
                          /\ \A other \in evidenceRows : Key(row) # Key(other)
                          /\ \A other \in new : Key(row) = Key(other) => row = other
  PROVE  TimelineInv'
<1>1. \A row \in evidenceRows : Drawn(row)'
  <2> SUFFICES ASSUME NEW row \in evidenceRows PROVE Drawn(row)'
      BY Zenon
  <2>1. Drawn(row) /\ Len(seen) \in Nat /\ Len(seen') \in Nat /\ sequence \in Nat
        BY DEF TimelineInv
  <2> QED
      BY <2>1 DEF Drawn
<1> QED
    BY <1>1, Zenon DEF TimelineInv

LEMMA TimelineInvStep == TimelineInv /\ [TimelineNext]_timelineVars => TimelineInv'
<1> SUFFICES ASSUME TimelineInv, [TimelineNext]_timelineVars
             PROVE  TimelineInv'
    BY Zenon
<1>0. Len(seen) \in Nat /\ sequence \in Nat /\ seen \in Seq(Checkpoints)
      BY DEF TimelineInv
<1>1. ASSUME NEW claim \in Claims, NEW at \in ReceiptTimes, ProcessCheckpoint(claim, at)
      PROVE  TimelineInv'
  <2>0. PICK id \in Nat : id = Len(seen) + 1
        BY <1>0
  <2> DEFINE checkpoint == [id |-> id, run |-> claim.run, type |-> claim.type,
                            tool |-> claim.tool, at |-> at]
  <2>r. PICK row : row = [source |-> "agent_claim", id |-> id, run |-> claim.run, at |-> at,
                          severity |-> 1]
        BY Zenon
  <2>1. checkpoint \in Checkpoints
        BY Zenon DEF Checkpoints
  <2>2. seen' \in Seq(Checkpoints) /\ Len(seen') = id /\ sequence' = sequence
        BY <1>0, <1>1, <2>0, <2>1 DEF ProcessCheckpoint
  <2>3. evidenceRows' \subseteq evidenceRows \cup {row}
        BY <1>1, <2>0, <2>r, Zenon DEF ProcessCheckpoint, Emit
  <2>c. IsClaim(row) /\ row.id = id /\ row.source = "agent_claim"
        BY <2>r, Zenon DEF IsClaim
  <2>4. Drawn(row)'
        BY <2>c, <2>2, id <= id, Zenon DEF Drawn
  <2>5. \A other \in evidenceRows : Key(row) # Key(other)
    <3> SUFFICES ASSUME NEW other \in evidenceRows, Key(row) = Key(other) PROVE FALSE
        BY Zenon
    <3>1. other.source = "agent_claim" /\ other.id = Len(seen) + 1
          BY <2>0, <2>c, Zenon DEF Key
    <3>2. Drawn(other)
          BY Zenon DEF TimelineInv
    <3>3. other.id <= Len(seen)
          BY <3>1, <3>2 DEF Drawn, IsFact, IsDecision
    <3> QED
        BY <1>0, <3>1, <3>3
  <2>6. PICK new : new = {row}
        BY Zenon
  <2>7. \A r \in new : Drawn(r)'
        BY <2>4, <2>6, Zenon
  <2>8. Len(seen') >= Len(seen) /\ sequence' >= sequence /\ sequence' \in Nat
        BY <1>0, <2>0, <2>2
  <2> QED
      BY <2>2, <2>3, <2>5, <2>6, <2>7, <2>8, FreshRows, Zenon
<1>2. ASSUME NEW input \in Facts, NEW at \in ReceiptTimes, ProcessKernel(input, at)
      PROVE  TimelineInv'
  <2>1. sequence' = sequence + 1 /\ seen' = seen
        BY <1>2, Zenon DEF ProcessKernel
  <2>2. PICK new : /\ evidenceRows' \subseteq evidenceRows \cup new
                   /\ \A row \in new : IsFact(row) \/ IsDecision(row)
                   /\ \A row \in new : row.id = sequence'
                   /\ \A row, other \in new : row.source = other.source => row = other
    <3>1. PICK n, known, correlation :
              /\ n = sequence' /\ known = Len(seen)
              /\ correlation = Correlate([run |-> input.run, type |-> input.type,
                                          tool |-> input.tool, at |-> at], Recent(input.run))
          BY Zenon
    <3> DEFINE fact == [run |-> input.run, type |-> input.type, tool |-> input.tool, at |-> at]
               row == [source |-> "kernel_fact", id |-> n, run |-> input.run, at |-> at,
                       severity |-> IF input.blocked THEN 2 ELSE 1,
                       fact |-> fact, known |-> known, correlation |-> correlation]
    <3>2. PICK later : LET decision == [source |-> "policy_decision", id |-> n, run |-> input.run,
                                        at |-> later, severity |-> 1]
                       IN  evidenceRows' \subseteq evidenceRows \cup {row, decision}
      <4>1. CASE Emit({row})
            BY <4>1, Zenon DEF Emit
      <4>2. ASSUME NEW later,
                   Emit({row, [source |-> "policy_decision", id |-> n, run |-> input.run,
                               at |-> later, severity |-> 1]})
            PROVE  evidenceRows' \subseteq evidenceRows \cup
                       {row, [source |-> "policy_decision", id |-> n, run |-> input.run,
                              at |-> later, severity |-> 1]}
            BY <4>2, Zenon DEF Emit
      <4> QED
          BY <1>2, <3>1, <4>1, <4>2, Zenon DEF ProcessKernel
    <3> DEFINE decision == [source |-> "policy_decision", id |-> n, run |-> input.run,
                            at |-> later, severity |-> 1]
    <3>3. IsFact(row) /\ row.id = n /\ row.source = "kernel_fact"
          BY Zenon DEF IsFact
    <3>4. IsDecision(decision) /\ decision.id = n /\ decision.source = "policy_decision"
          BY Zenon DEF IsDecision
    <3>5. evidenceRows' \subseteq evidenceRows \cup {row, decision}
          BY <3>2, Zenon
    <3> HIDE DEF row, decision
    <3>6. PICK both : both = {row, decision}
          BY Zenon
    <3>7. \A one \in both : IsFact(one) \/ IsDecision(one)
          BY <3>3, <3>4, <3>6, Zenon
    <3>8. \A one \in both : one.id = sequence'
          BY <3>1, <3>3, <3>4, <3>6, Zenon
    <3>9. \A one, other \in both : one.source = other.source => one = other
          BY <3>3, <3>4, <3>6, Zenon
    <3>10. evidenceRows' \subseteq evidenceRows \cup both
          BY <3>5, <3>6, Zenon
    <3> QED
        BY <3>7, <3>8, <3>9, <3>10, Zenon
  <2>3. \A row \in new : Drawn(row)'
        BY <1>0, <2>1, <2>2 DEF Drawn
  <2>4. \A row \in new : \A other \in evidenceRows : Key(row) # Key(other)
    <3> SUFFICES ASSUME NEW row \in new, NEW other \in evidenceRows, Key(row) = Key(other)
                 PROVE  FALSE
        BY Zenon
    <3>1. other.source = row.source /\ other.id = sequence + 1
          BY <2>1, <2>2, Zenon DEF Key
    <3>2. row.source # "agent_claim"
          BY <2>2, SMTT(15) DEF IsFact, IsDecision
    <3>3. Drawn(other)
          BY Zenon DEF TimelineInv
    <3>4. other.id <= sequence
          BY <3>1, <3>2, <3>3 DEF Drawn, IsClaim
    <3> QED
        BY <1>0, <3>1, <3>4
  <2>5. \A row, other \in new : Key(row) = Key(other) => row = other
        BY <2>2, Zenon DEF Key
  <2> QED
      BY <1>0, <2>1, <2>2, <2>3, <2>4, <2>5, FreshRows
<1>3. CASE PruneRow
      BY <1>0, <1>3, FreshRows DEF PruneRow
<1>4. CASE UNCHANGED timelineVars
      BY <1>0, <1>4, FreshRows DEF timelineVars
<1> QED
    BY <1>1, <1>2, <1>3, <1>4, Zenon DEF TimelineNext

\* StoredEvidenceProvider.Evidence never fails for what the store has lost or
\* left out: it hands Build a timeline that Build accepts, for any inputs,
\* windows, cache sizes and read limits.
THEOREM TimelinesAreServed == TimelineSpec => []TimelineIsServed
<1>1. TimelineInv => TimelineIsServed
      BY SnapshotIsServed, Zenon DEF TimelineIsServed
<1> QED
    BY <1>1, TimelineInvInit, TimelineInvStep, PTL DEF TimelineSpec

-----------------------------------------------------------------------------
(* Matches. *)

\* Induction, stated with a set.
LEMMA SetInduction ==
    ASSUME NEW S, 0 \in S, \A k \in Nat : k \in S => k + 1 \in S
    PROVE  \A k \in Nat : k \in S
<1> DEFINE T == Nat \ S
<1> SUFFICES ASSUME T # {} PROVE FALSE
    BY Zenon
<1>1. T \subseteq Nat
      BY Zenon
<1>2. PICK m \in T : \A u \in T : ~(<<u, m>> \in OpToRel(<, Nat))
      BY <1>1, NatLessThanWellFounded, WFMin, Zenon
<1>3. \A u \in T : ~(u < m)
      BY <1>1, <1>2, Zenon DEF OpToRel
<1>4. m \in Nat /\ m \notin S /\ m # 0
      BY <1>2, Zenon
<1>5. m - 1 \in Nat /\ m - 1 < m /\ (m - 1) + 1 = m
      BY <1>4
<1>6. m - 1 \in S
      BY <1>3, <1>5, Zenon
<1> QED
    BY <1>4, <1>5, <1>6, Zenon

-----------------------------------------------------------------------------
(* The candidates of a fact. *)

\* A candidate that can be compared.
Rated(c) == c.score \in Int /\ c.delta \in Int /\ c.id \in Nat \ {NoLink}

\* Candidates that differ have different checkpoints.
Ranked(C) == IsFiniteSet(C) /\ (\A c \in C : Rated(c)) /\ \A c, d \in C : c.id = d.id => c = d

IsFirst(c, C) == c \in C /\ \A d \in C \ {c} : Ahead(c, d)

\* Better by score or by time; the ID alone does not count.
Beats(c, d) == c.score > d.score \/ (c.score = d.score /\ Abs(c.delta) < Abs(d.delta))
IsBest(c, C) == c \in C /\ \A d \in C \ {c} : Beats(c, d)

\* The sorting order is total, strict and transitive.
LEMMA AheadIsOrder ==
    ASSUME NEW c, NEW d, Rated(c), Rated(d)
    PROVE  /\ c.id # d.id => Ahead(c, d) \/ Ahead(d, c)
           /\ ~(Ahead(c, d) /\ Ahead(d, c))
           /\ Ahead(c, d) <=> Beats(c, d) \/ (c.score = d.score /\ Abs(c.delta) = Abs(d.delta) /\ c.id < d.id)
BY DEF Rated, Ahead, Beats, Abs

LEMMA AheadIsTransitive ==
    ASSUME NEW c, NEW d, NEW e, Rated(c), Rated(d), Rated(e), Ahead(c, d), Ahead(d, e)
    PROVE  Ahead(c, e) /\ (Beats(c, d) => Beats(c, e))
BY DEF Rated, Ahead, Beats, Abs

LEMMA BeatsIsStrict ==
    ASSUME NEW c, NEW d, Rated(c), Rated(d), Beats(c, d)
    PROVE  ~Ahead(d, c) /\ ~Beats(d, c) /\ ~(c.score = d.score /\ Abs(c.delta) = Abs(d.delta))
BY DEF Rated, Ahead, Beats, Abs

\* Some candidates have a first one, and First names it.
LEMMA FirstExists ==
    ASSUME NEW C, Ranked(C), C # {}
    PROVE  IsFirst(First(C), C)
<1> DEFINE L == {k \in Nat : \A T \in SUBSET C : Cardinality(T) = k /\ T # {} => \E c : IsFirst(c, T)}
<1>1. \A T \in SUBSET C : IsFiniteSet(T) /\ Cardinality(T) \in Nat
      BY FS_Subset, FS_CardinalityType, Zenon DEF Ranked
<1>2. 0 \in L
  <2>1. \A T \in SUBSET C : Cardinality(T) = 0 => T = {}
        BY <1>1, FS_EmptySet, Zenon
  <2>2. 0 \in Nat
        BY Zenon
  <2> QED
      BY <2>1, <2>2, Zenon
<1>3. ASSUME NEW k \in Nat, k \in L PROVE k + 1 \in L
  <2>1. ASSUME NEW T \in SUBSET C, Cardinality(T) = k + 1, T # {} PROVE \E c : IsFirst(c, T)
    <3>1. PICK x : x \in T
          BY <2>1, Zenon
    <3>2. PICK U : U = T \ {x}
          BY Zenon
    <3>3. CASE U = {}
          BY <3>1, <3>2, <3>3, Zenon DEF IsFirst
    <3>4. CASE U # {}
      <4>1. U \in SUBSET C /\ Cardinality(U) = Cardinality(T) - 1
            BY <1>1, <2>1, <3>1, <3>2, FS_RemoveElement, Zenon
      <4>2. Cardinality(U) = k
            BY <2>1, <4>1
      <4>3. PICK y : IsFirst(y, U)
            BY <1>3, <3>4, <4>1, <4>2, Zenon
      <4>4. y \in U /\ x # y /\ x \in C /\ y \in C /\ Rated(x) /\ Rated(y) /\ x.id # y.id
            BY <3>1, <3>2, <4>1, <4>3, Zenon DEF IsFirst, Ranked
      <4>5. CASE Ahead(y, x)
        <5>1. \A d \in T \ {y} : Ahead(y, d)
              BY <3>2, <4>3, <4>5, Zenon DEF IsFirst
        <5> QED
            BY <3>2, <4>4, <5>1, Zenon DEF IsFirst
      <4>6. CASE Ahead(x, y)
        <5>1. ASSUME NEW d \in T \ {x} PROVE Ahead(x, d)
          <6>1. CASE d = y
                BY <4>6, <6>1, Zenon
          <6>2. CASE d # y
            <7>1. Ahead(y, d) /\ Rated(d)
                  BY <3>2, <4>1, <4>3, <6>2, Zenon DEF IsFirst, Ranked
            <7> QED
                BY <4>4, <4>6, <7>1, AheadIsTransitive, Zenon
          <6> QED
              BY <6>1, <6>2, Zenon
        <5> QED
            BY <3>1, <5>1, Zenon DEF IsFirst
      <4> QED
          BY <4>4, <4>5, <4>6, AheadIsOrder, Zenon
    <3> QED
        BY <3>3, <3>4, Zenon
  <2>2. k + 1 \in Nat
        OBVIOUS
  <2> QED
      BY <2>1, <2>2, Zenon
<1> HIDE DEF L
<1>4. \A k \in Nat : k \in L
      BY <1>2, <1>3, SetInduction, Zenon
<1>5. C \in SUBSET C
      BY Zenon
<1>6. \E c : IsFirst(c, C)
      BY <1>1, <1>4, <1>5, Zenon DEF L
<1>7. \E c \in C : \A d \in C \ {c} : Ahead(c, d)
      BY <1>6, Zenon DEF IsFirst
<1> QED
    BY <1>7, Zenon DEF First, IsFirst

\* A part of comparable candidates is comparable.
LEMMA RankedPart ==
    ASSUME NEW C, Ranked(C), NEW T \in SUBSET C PROVE Ranked(T)
<1>1. IsFiniteSet(T)
      BY FS_Subset, Zenon DEF Ranked
<1> QED
    BY <1>1, Zenon DEF Ranked

\* What Correlate selects of the candidates: the best, or nothing.
Selects(result, C) ==
    /\ result.candidates = C
    /\ \A c : IsBest(c, C) => result.selected = c.id
    /\ (\A c : ~IsBest(c, C)) => result.selected = NoLink

\* Correlate sorts by the ID last, and a tie before it is no match.
LEMMA CorrelateSelects ==
    ASSUME NEW fact, NEW recent, Ranked(Candidates(fact, recent))
    PROVE  Selects(Correlate(fact, recent), Candidates(fact, recent))
<1>0. PICK C : C = Candidates(fact, recent)
      BY Zenon
<1>1. Ranked(C)
      BY <1>0, Zenon
<1>2. CASE C = {}
  <2>1. Correlate(fact, recent) = Unmatched
        BY <1>0, <1>2, Zenon DEF Correlate
  <2>2. Unmatched.candidates = {} /\ Unmatched.selected = NoLink
        BY Zenon DEF Unmatched
  <2> QED
      BY <1>0, <1>2, <2>1, <2>2, Zenon DEF Selects, IsBest
<1>3. CASE C # {}
  <2>1. PICK b : b = First(C)
        BY Zenon
  <2>2. PICK T : T = C \ {b}
        BY Zenon
  <2>3. PICK second : second = First(T)
        BY Zenon
  <2> DEFINE conflict == /\ C # {b}
                         /\ second.score = b.score /\ Abs(second.delta) = Abs(b.delta)
             result == [status |-> IF conflict THEN "ambiguous" ELSE "matched",
                        selected |-> IF conflict THEN NoLink ELSE b.id,
                        confidence |-> b.score,
                        candidates |-> C]
  <2>4. Correlate(fact, recent) = result
        BY <1>0, <1>3, <2>1, <2>2, <2>3, Zenon DEF Correlate
  <2>5. IsFirst(b, C)
        BY <1>1, <1>3, <2>1, FirstExists, Zenon
  <2>6. b \in C /\ Rated(b) /\ Ranked(T)
        BY <1>1, <2>2, <2>5, RankedPart, Zenon DEF IsFirst, Ranked
  <2>7. C # {b} => IsFirst(second, T)
    <3> SUFFICES ASSUME C # {b} PROVE IsFirst(second, T)
        BY Zenon
    <3>1. T # {}
          BY <2>2, <2>6, Zenon
    <3> QED
        BY <2>3, <2>6, <3>1, FirstExists, Zenon
  <2>8. ASSUME conflict, NEW c, IsBest(c, C) PROVE FALSE
    <3>1. second \in C /\ second # b /\ Rated(second) /\ c \in C /\ Rated(c)
          BY <1>1, <2>2, <2>7, <2>8, Zenon DEF IsFirst, IsBest, Ranked
    <3>2. CASE c = b
      <4>1. Beats(b, second)
            BY <2>8, <3>1, <3>2, Zenon DEF IsBest
      <4> QED
          BY <2>6, <2>8, <3>1, <4>1, BeatsIsStrict, Zenon
    <3>3. CASE c # b
      <4>1. Beats(c, b) /\ Ahead(b, c)
            BY <2>5, <2>6, <2>8, <3>1, <3>3, Zenon DEF IsBest, IsFirst
      <4> QED
          BY <2>6, <3>1, <4>1, BeatsIsStrict, Zenon
    <3> QED
        BY <3>2, <3>3, Zenon
  <2>9. ASSUME ~conflict PROVE IsBest(b, C)
    <3> SUFFICES ASSUME NEW d \in C \ {b} PROVE Beats(b, d)
        BY <2>6, Zenon DEF IsBest
    <3>1. Ahead(b, d) /\ Rated(d) /\ C # {b}
          BY <1>1, <2>5, Zenon DEF IsFirst, Ranked
    <3>2. second \in C /\ second # b /\ Rated(second) /\ IsFirst(second, T)
          BY <1>1, <2>2, <2>7, <3>1, Zenon DEF IsFirst, Ranked
    <3>3. Ahead(b, second)
          BY <2>5, <3>2, Zenon DEF IsFirst
    <3>4. Beats(b, second)
      <4>1. ~(b.score = second.score /\ Abs(b.delta) = Abs(second.delta))
            BY <2>9, <3>1, Zenon
      <4> QED
          BY <2>6, <3>2, <3>3, <4>1, AheadIsOrder, Zenon
    <3>5. CASE d = second
          BY <3>4, <3>5, Zenon
    <3>6. CASE d # second
      <4>1. Ahead(second, d)
            BY <2>2, <3>2, <3>6, Zenon DEF IsFirst
      <4> QED
          BY <2>6, <3>1, <3>2, <3>3, <3>4, <4>1, AheadIsTransitive, Zenon
    <3> QED
        BY <3>5, <3>6, Zenon
  <2>10. ASSUME NEW c, IsBest(c, C), IsBest(b, C) PROVE c = b
    <3> SUFFICES ASSUME c # b PROVE FALSE
        BY Zenon
    <3>1. Beats(c, b) /\ Beats(b, c) /\ Rated(c)
          BY <1>1, <2>10, <2>6, Zenon DEF IsBest, Ranked
    <3> QED
        BY <2>6, <3>1, BeatsIsStrict, Zenon
  <2>11. /\ result.candidates = C
         /\ conflict => result.selected = NoLink
         /\ ~conflict => result.selected = b.id
         BY Zenon
  <2> HIDE DEF conflict, result
  <2>12. Selects(result, C)
         BY <2>8, <2>9, <2>10, <2>11, Zenon DEF Selects
  <2> QED
      BY <1>0, <2>4, <2>12, Zenon
<1> QED
    BY <1>2, <1>3, Zenon

-----------------------------------------------------------------------------
(* The claims a fact is correlated with. *)

\* The places of the claims of a Run among the first n: the newest of them that
\* were cached and are considered.
OwnClaims(run, n) == {i \in 1 .. n : seen[i].run = run}
Newest(run, n) ==
    {i \in OwnClaims(run, n) : /\ Cardinality({j \in 1 .. n : j > i}) < MaxClaims
                               /\ Cardinality({j \in OwnClaims(run, n) : j > i}) < MaxSameRun}

\* A checkpoint's number is its place.
Numbered == seen \in Seq(Checkpoints) /\ \A i \in DOMAIN seen : seen[i].id = i

\* Every score is a number.
LEMMA ScoreIsRated ==
    ASSUME NEW fact, NEW claim, fact.at \in Nat, claim.at \in Nat, claim.id \in Nat \ {NoLink}
    PROVE  Rated(scoreCandidate(fact, claim)) /\ scoreCandidate(fact, claim).id = claim.id
<1> DEFINE delta == Delta(fact, claim)
           window == IF delta < 0 THEN BeforeWindow ELSE AfterWindow
           tool == IF fact.tool # "" /\ fact.tool = claim.tool THEN 25 ELSE 0
           phase == IF compatible(fact.type, claim.type) THEN 15 ELSE 0
           near == ((window - Abs(delta)) * 20) \div window
<1>1. delta \in Int
      BY DEF Delta
<1>2. window \in Nat \ {0}
      BY TimelineAssumption, Zenon
<1>3. Abs(delta) \in Int
      BY <1>1 DEF Abs
<1> HIDE DEF delta, window
<1>4. PICK a : a = (window - Abs(delta)) * 20
      BY Zenon
<1>5. a \in Int
      BY <1>2, <1>3, <1>4
<1>6. a \div window \in Int
      BY <1>2, <1>5
<1>7. near \in Int
      BY <1>4, <1>6, Zenon
<1> HIDE DEF near
<1>8. tool \in Int /\ phase \in Int
  <2>1. 25 \in Int /\ 15 \in Int /\ 0 \in Int
        OBVIOUS
  <2> QED
      BY <2>1, Zenon
<1> HIDE DEF tool, phase
<1>9. tool + phase + 5 + near \in Int
      BY <1>7, <1>8
<1>10. PICK total : total = tool + phase + 5 + near
      BY Zenon
<1>11. scoreCandidate(fact, claim) = [id |-> claim.id, delta |-> delta, score |-> total]
      BY <1>10, Zenon DEF scoreCandidate, delta, window, tool, phase, near
<1>12. total \in Int
      BY <1>9, <1>10, Zenon
<1>13. PICK c : c = scoreCandidate(fact, claim)
      BY Zenon
<1>14. c.id = claim.id /\ c.delta = delta /\ c.score = total
      BY <1>11, <1>13
<1>15. Rated(c)
      BY <1>1, <1>12, <1>14, Zenon DEF Rated
<1> QED
    BY <1>13, <1>14, <1>15, Zenon

\* The candidates of a fact are the scores of the claims that are considered.
LEMMA CandidatesAreConsidered ==
    ASSUME Numbered, NEW row, row.known \in 0 .. Len(seen), row.fact.run = row.run, row.fact.at \in Nat
    PROVE  LET score(i) == scoreCandidate(row.fact, seen[i])
               C == Candidates(row.fact, {seen[i] : i \in Newest(row.run, row.known)})
           IN  /\ C = {score(i) : i \in Considered(row)}
               /\ Considered(row) \subseteq 1 .. row.known
               /\ \A i \in Considered(row) : score(i).id = i /\ Rated(score(i))
               /\ Ranked(C)
<1> DEFINE score(i) == scoreCandidate(row.fact, seen[i])
           C == Candidates(row.fact, {seen[i] : i \in Newest(row.run, row.known)})
<1>1. Considered(row) = {i \in Newest(row.run, row.known) :
                            InWindow(row.fact, seen[i]) /\ score(i).score >= MinimumScore}
      BY Zenon DEF Considered, Newest, OwnClaims
<1>2. Newest(row.run, row.known) \subseteq 1 .. row.known /\ \A i \in Newest(row.run, row.known) : seen[i].run = row.run
      BY Zenon DEF Newest, OwnClaims
<1>3. ASSUME NEW i \in 1 .. row.known PROVE i \in DOMAIN seen /\ i \in Nat \ {0}
      BY DEF Numbered
<1>4. ASSUME NEW i \in 1 .. row.known PROVE score(i).id = i /\ Rated(score(i))
  <2>1. seen[i] \in Checkpoints /\ seen[i].id = i
        BY <1>3 DEF Numbered
  <2>2. seen[i].at \in Nat
        BY <2>1, TimelineAssumption, Zenon DEF Checkpoints
  <2>3. i \in Nat \ {NoLink}
        BY <1>3, Zenon DEF NoLink
  <2> QED
      BY <2>1, <2>2, <2>3, ScoreIsRated, Zenon
<1> HIDE DEF score
<1>5. C = {score(i) : i \in Considered(row)}
  <2>1. ASSUME NEW c \in C PROVE c \in {score(i) : i \in Considered(row)}
        BY <1>1, Zenon DEF Candidates, score
  <2>2. ASSUME NEW i \in Considered(row) PROVE score(i) \in C
        BY <1>1, <1>2, Zenon DEF Candidates, score
  <2> HIDE DEF C
  <2> QED
      BY <2>1, <2>2, Zenon
<1>6. Considered(row) \subseteq 1 .. row.known
      BY <1>1, <1>2, Zenon
<1>7. IsFiniteSet(Considered(row))
  <2>0. row.known \in Int /\ 1 \in Int
        BY DEF Numbered
  <2>1. IsFiniteSet(1 .. row.known)
        BY <2>0, FS_Interval, Zenon
  <2> QED
      BY <1>6, <2>1, FS_Subset, Zenon
<1> HIDE DEF C
<1>8. IsFiniteSet(C)
  <2>1. PICK f : f = [i \in Considered(row) |-> score(i)]
        BY Zenon
  <2>2. f \in Surjection(Considered(row), C)
        BY <1>5, <2>1, Zenon DEF Surjection
  <2> QED
      BY <1>7, <2>2, FS_Surjection, Zenon
<1>9. Ranked(C)
  <2>1. \A c \in C : Rated(c)
        BY <1>4, <1>5, <1>6, Zenon
  <2>2. ASSUME NEW c \in C, NEW d \in C, c.id = d.id PROVE c = d
    <3>1. PICK i \in Considered(row) : c = score(i)
          BY <1>5, Zenon
    <3>2. PICK j \in Considered(row) : d = score(j)
          BY <1>5, Zenon
    <3>3. c.id = i /\ d.id = j
          BY <1>4, <1>6, <3>1, <3>2, Zenon
    <3> QED
        BY <2>2, <3>1, <3>2, <3>3, Zenon
  <2> QED
      BY <1>8, <2>1, <2>2, Zenon DEF Ranked
<1> QED
    BY <1>4, <1>5, <1>6, <1>9, Zenon DEF score, C

\* A row was correlated with the newest claims the worker had seen by then.
Correlated(row) ==
    /\ IsFact(row) /\ row.known \in 0 .. Len(seen) /\ row.fact.run = row.run /\ row.fact.at \in Nat
    /\ row.correlation = Correlate(row.fact, {seen[i] : i \in Newest(row.run, row.known)})

\* The cache holds the newest claims.
CacheIsNewest ==
    /\ claims \in Seq(Checkpoints)
    /\ Len(claims) = IF Len(seen) <= MaxClaims THEN Len(seen) ELSE MaxClaims
    /\ \A i \in 1 .. Len(claims) : claims[i] = seen[i + (Len(seen) - Len(claims))]

MatchInv ==
    /\ Numbered
    /\ CacheIsNewest
    /\ \A row \in evidenceRows : row.source = "kernel_fact" => Correlated(row)

\* A place behind the gap is a place in the cache.
InCache(k, i, gap, m) == k - gap \in 1 .. m /\ k - gap > i /\ (k - gap) + gap = k
LEMMA PlaceInCache ==
    ASSUME NEW n \in Nat, NEW m \in Nat, NEW gap \in Nat, gap = n - m,
           NEW i \in Nat, NEW k \in 1 .. n, k > i + gap
    PROVE  InCache(k, i, gap, m)
BY DEF InCache

\* The cached claims the worker considers are the newest claims of the Run.
LEMMA RecentIsNewest ==
    ASSUME Numbered, CacheIsNewest, NEW run
    PROVE  Recent(run) = {seen[i] : i \in Newest(run, Len(seen))}
<1>0. PICK n, m, gap : n = Len(seen) /\ m = Len(claims) /\ gap = n - m
      BY Zenon
<1>1. /\ n \in Nat /\ m \in Nat /\ gap \in Nat /\ MaxClaims \in Nat \ {0} /\ DOMAIN claims = 1 .. m
      /\ m = (IF n <= MaxClaims THEN n ELSE MaxClaims)
  <2>1. MaxClaims \in Nat \ {0}
        BY TimelineAssumption, Zenon
  <2> QED
      BY <1>0, <2>1 DEF Numbered, CacheIsNewest
<1>2. \A i \in 1 .. m : claims[i] = seen[i + gap]
      BY <1>0, Zenon DEF CacheIsNewest
<1> DEFINE own == OwnClaims(run, n)
           ownCached == {i \in 1 .. m : claims[i].run = run}
           newer(i) == {j \in own : j > i}
           newerCached(i) == {j \in ownCached : j > i}
<1>3. \A i \in 1 .. m : i + gap \in 1 .. n /\ (i \in ownCached <=> i + gap \in own)
  <2>1. \A i \in 1 .. m : i + gap \in 1 .. n
        BY <1>0, <1>1
  <2> QED
      BY <1>2, <2>1, Zenon DEF OwnClaims
<1>4. ASSUME NEW i \in 1 .. m
      PROVE  Cardinality(newerCached(i)) = Cardinality(newer(i + gap)) /\ IsFiniteSet(newer(i + gap))
  <2>1. PICK f : f = [j \in newerCached(i) |-> j + gap]
        BY Zenon
  <2>2. ASSUME NEW j \in newerCached(i) PROVE j + gap \in newer(i + gap)
    <3>1. j \in 1 .. m /\ j > i /\ j + gap \in own
          BY <1>3, Zenon
    <3>2. j + gap > i + gap
          BY <1>1, <3>1
    <3> QED
        BY <3>1, <3>2, Zenon
  <2>3. ASSUME NEW k \in newer(i + gap) PROVE \E j \in newerCached(i) : j + gap = k
    <3>1. k \in 1 .. n /\ k > i + gap
          BY Zenon DEF OwnClaims
    <3>2. k - gap \in 1 .. m /\ k - gap > i /\ (k - gap) + gap = k
      <4>1. i \in Nat
            BY <1>1
      <4>2. InCache(k, i, gap, m)
            BY <1>0, <1>1, <3>1, <4>1, PlaceInCache, Zenon
      <4> QED
          BY <4>2, Zenon DEF InCache
    <3>3. k - gap \in ownCached
          BY <1>3, <3>2, Zenon
    <3> QED
        BY <3>2, <3>3, Zenon
  <2>4. ASSUME NEW j \in newerCached(i), NEW k \in newerCached(i), j + gap = k + gap PROVE j = k
    <3>1. j \in 1 .. m /\ k \in 1 .. m
          BY Zenon
    <3> QED
        BY <1>1, <2>4, <3>1
  <2>5. f \in [newerCached(i) -> newer(i + gap)]
        BY <2>1, <2>2, Zenon
  <2>6. f \in Bijection(newerCached(i), newer(i + gap))
    <3>1. \A j, k \in newerCached(i) : f[j] = f[k] => j = k
          BY <2>1, <2>4, Zenon
    <3>2. \A k \in newer(i + gap) : \E j \in newerCached(i) : f[j] = k
          BY <2>1, <2>3, Zenon
    <3> HIDE DEF newer, newerCached
    <3> QED
        BY <2>5, <3>1, <3>2, Zenon DEF Bijection, Injection, Surjection, IsInjective
  <2>7. IsFiniteSet(newerCached(i))
    <3>1. IsFiniteSet(1 .. m)
      <4>1. m \in Int /\ 1 \in Int
            BY <1>1
      <4> QED
          BY <4>1, FS_Interval, Zenon
    <3>2. newerCached(i) \in SUBSET (1 .. m)
          BY Zenon
    <3> QED
        BY <3>1, <3>2, FS_Subset, Zenon
  <2> HIDE DEF newer, newerCached, own, ownCached
  <2>8. ExistsBijection(newerCached(i), newer(i + gap))
        BY <2>6, Zenon DEF ExistsBijection
  <2> QED
      BY <2>7, <2>8, FS_Bijection, Zenon
<1>5. ASSUME NEW i \in 1 .. n
      PROVE  Cardinality({j \in 1 .. n : j > i}) < MaxClaims <=> i > gap
  <2>1. {j \in 1 .. n : j > i} = (i + 1) .. n
    <3>1. \A j : j \in {k \in 1 .. n : k > i} <=> j \in (i + 1) .. n
          BY <1>1
    <3> QED
        BY <3>1, Zenon
  <2>2. Cardinality((i + 1) .. n) = IF i + 1 > n THEN 0 ELSE n - (i + 1) + 1
    <3>1. i + 1 \in Int /\ n \in Int
          BY <1>1
    <3> QED
        BY <3>1, FS_Interval, Zenon
  <2>3. PICK size : size = Cardinality({j \in 1 .. n : j > i})
        BY Zenon
  <2>4. size = n - i
    <3>1. size = IF i + 1 > n THEN 0 ELSE n - (i + 1) + 1
          BY <2>1, <2>2, <2>3, Zenon
    <3> QED
        BY <1>1, <3>1
  <2>5. size < MaxClaims <=> i > gap
        BY <1>0, <1>1, <2>4
  <2> QED
      BY <2>3, <2>5, Zenon
<1> HIDE DEF newer, newerCached
<1>6. ASSUME NEW i \in 1 .. m
      PROVE  i \in ownCached /\ Cardinality(newerCached(i)) < MaxSameRun <=> i + gap \in Newest(run, n)
  <2>1. i + gap > gap
        BY <1>1
  <2>2. i + gap \in 1 .. n
        BY <1>3, Zenon
  <2>3. i + gap \in Newest(run, n) <=> i + gap \in own /\ Cardinality(newer(i + gap)) < MaxSameRun
        BY <1>5, <2>1, <2>2, Zenon DEF Newest, newer
  <2> HIDE DEF own, ownCached
  <2> QED
      BY <1>3, <1>4, <2>3, Zenon
<1>7. ASSUME NEW k \in Newest(run, n) PROVE \E i \in 1 .. m : i + gap = k
  <2>1. k \in 1 .. n /\ Cardinality({j \in 1 .. n : j > k}) < MaxClaims
        BY Zenon DEF Newest, OwnClaims
  <2>2. k > gap
        BY <1>5, <2>1, Zenon
  <2>3. k - gap \in 1 .. m /\ (k - gap) + gap = k
        BY <1>0, <1>1, <2>1, <2>2
  <2> QED
      BY <2>3, Zenon
<1>8. Recent(run) = {claims[i] : i \in {k \in ownCached : Cardinality(newerCached(k)) < MaxSameRun}}
      BY <1>1, Zenon DEF Recent, newerCached
<1>9. ASSUME NEW c \in Recent(run) PROVE c \in {seen[i] : i \in Newest(run, n)}
  <2>1. PICK i \in ownCached : c = claims[i] /\ Cardinality(newerCached(i)) < MaxSameRun
        BY <1>8, <1>9, Zenon
  <2>2. i \in 1 .. m
        BY <2>1, Zenon
  <2> QED
      BY <1>2, <1>6, <2>1, <2>2, Zenon
<1>10. ASSUME NEW k \in Newest(run, n) PROVE seen[k] \in Recent(run)
  <2>1. PICK i \in 1 .. m : i + gap = k
        BY <1>7, <1>10, Zenon
  <2>2. i \in ownCached /\ Cardinality(newerCached(i)) < MaxSameRun /\ claims[i] = seen[k]
        BY <1>2, <1>6, <1>10, <2>1, Zenon
  <2> QED
      BY <1>8, <2>2, Zenon
<1> QED
    BY <1>0, <1>9, <1>10, Zenon

-----------------------------------------------------------------------------
(* The worker keeps what it correlated, and a snapshot hides or shows it. *)

LEMMA MatchInvInit == TimelineInit => MatchInv
<1>1. <<>> \in Seq(Checkpoints) /\ Len(<<>>) = 0 /\ DOMAIN <<>> = {} /\ 1 .. 0 = {}
      OBVIOUS
<1>2. 0 <= MaxClaims
  <2>1. MaxClaims \in Nat
        BY TimelineAssumption, Zenon
  <2> QED
      BY <2>1
<1> QED
    BY <1>1, <1>2, Zenon DEF TimelineInit, MatchInv, Numbered, CacheIsNewest

\* What was correlated stays so when later claims are seen.
LEMMA StaysCorrelated ==
    ASSUME NEW row, Correlated(row), Len(seen) \in Nat, Len(seen') \in Nat, Len(seen') >= Len(seen),
           \A i \in 1 .. Len(seen) : seen'[i] = seen[i]
    PROVE  Correlated(row)'
<1>0. PICK n : n = row.known
      BY Zenon
<1>1. n \in 0 .. Len(seen') /\ \A i \in 1 .. n : i \in 1 .. Len(seen)
      BY <1>0 DEF Correlated
<1>2. \A i \in 1 .. n : seen'[i] = seen[i]
      BY <1>1, Zenon
<1>3. OwnClaims(row.run, n)' = OwnClaims(row.run, n)
      BY <1>2, Zenon DEF OwnClaims
<1>4. Newest(row.run, n)' = Newest(row.run, n) /\ Newest(row.run, n) \subseteq 1 .. n
      BY <1>3, Zenon DEF Newest, OwnClaims
<1>5. {seen'[i] : i \in Newest(row.run, n)'} = {seen[i] : i \in Newest(row.run, n)}
      BY <1>2, <1>4, Zenon
<1> QED
    BY <1>0, <1>1, <1>5, Zenon DEF Correlated

\* A checkpoint enters the cache, at whose limit the oldest goes.
LEMMA CheckpointKeepsMatch ==
    ASSUME MatchInv, NEW claim \in Claims, NEW at \in ReceiptTimes, ProcessCheckpoint(claim, at)
    PROVE  MatchInv'
<1>0. PICK n, checkpoint, cached :
          /\ n = Len(seen)
          /\ checkpoint = [id |-> n + 1, run |-> claim.run, type |-> claim.type, tool |-> claim.tool, at |-> at]
          /\ cached = Append(claims, checkpoint)
      BY Zenon
<1>1. /\ seen' = Append(seen, checkpoint)
      /\ claims' = IF Len(cached) > MaxClaims THEN Tail(cached) ELSE cached
      /\ \E id : Emit({[source |-> "agent_claim", id |-> id, run |-> claim.run, at |-> at, severity |-> 1]})
      BY <1>0, Zenon DEF ProcessCheckpoint
<1>2. /\ n \in Nat /\ n + 1 \in Nat /\ seen \in Seq(Checkpoints) /\ claims \in Seq(Checkpoints)
      /\ MaxClaims \in Nat \ {0}
  <2>1. MaxClaims \in Nat \ {0}
        BY TimelineAssumption, Zenon
  <2> QED
      BY <1>0, <2>1 DEF MatchInv, Numbered, CacheIsNewest
<1>3. checkpoint \in Checkpoints /\ checkpoint.id = n + 1
      BY <1>0, <1>2, Zenon DEF Checkpoints
<1>4. /\ seen' \in Seq(Checkpoints) /\ Len(seen') = n + 1 /\ seen'[n + 1] = checkpoint
      /\ \A i \in 1 .. n : seen'[i] = seen[i]
      BY <1>0, <1>1, <1>2, <1>3
<1>5. Numbered'
  <2>1. \A i \in 1 .. n : seen[i].id = i
        BY <1>0, <1>2 DEF MatchInv, Numbered
  <2>2. \A i \in 1 .. n + 1 : i \in 1 .. n \/ i = n + 1
        BY <1>2
  <2>3. DOMAIN seen' = 1 .. n + 1
        BY <1>4
  <2> QED
      BY <1>3, <1>4, <2>1, <2>2, <2>3, Zenon DEF Numbered
<1>6. CacheIsNewest'
  <2>0. PICK m : m = Len(claims)
        BY Zenon
  <2>1. /\ m \in Nat /\ m = (IF n <= MaxClaims THEN n ELSE MaxClaims)
        /\ \A i \in 1 .. m : claims[i] = seen[i + (n - m)]
        BY <1>0, <1>2, <2>0 DEF MatchInv, CacheIsNewest
  <2>2. /\ cached \in Seq(Checkpoints) /\ Len(cached) = m + 1 /\ cached[m + 1] = checkpoint
        /\ \A i \in 1 .. m : cached[i] = claims[i]
        BY <1>0, <1>2, <1>3, <2>0
  <2>3. ASSUME NEW i \in 1 .. m + 1 PROVE cached[i] = seen'[i + (n - m)]
    <3>1. CASE i \in 1 .. m
      <4>1. i + (n - m) \in 1 .. n
            BY <1>2, <2>1, <3>1
      <4> QED
          BY <1>4, <2>1, <2>2, <3>1, <4>1, Zenon
    <3>2. CASE i = m + 1
      <4>1. i + (n - m) = n + 1
            BY <1>2, <2>1, <3>2
      <4> QED
          BY <1>4, <2>2, <3>2, <4>1, Zenon
    <3> QED
        BY <2>1, <3>1, <3>2
  <2>4. CASE m + 1 > MaxClaims
    <3>1. claims' = Tail(cached)
          BY <1>1, <2>2, <2>4, Zenon
    <3>2. /\ claims' \in Seq(Checkpoints) /\ Len(claims') = m
          /\ \A i \in 1 .. m : claims'[i] = cached[i + 1]
          BY <2>1, <2>2, <3>1
    <3>3. m = MaxClaims /\ n >= MaxClaims /\ ~(n + 1 <= MaxClaims)
          BY <1>2, <2>1, <2>4
    <3>4. ASSUME NEW i \in 1 .. m PROVE claims'[i] = seen'[i + ((n + 1) - m)]
      <4>1. i + 1 \in 1 .. m + 1 /\ (i + 1) + (n - m) = i + ((n + 1) - m)
            BY <1>2, <2>1
      <4> QED
          BY <2>3, <3>2, <4>1, Zenon
    <3> QED
        BY <1>4, <3>2, <3>3, <3>4, Zenon DEF CacheIsNewest
  <2>5. CASE ~(m + 1 > MaxClaims)
    <3>1. claims' = cached
          BY <1>1, <2>2, <2>5, Zenon
    <3>2. m = n /\ n + 1 <= MaxClaims
          BY <1>2, <2>1, <2>5
    <3>3. (n + 1) - (n + 1) = n - m
          BY <1>2, <3>2
    <3> QED
        BY <1>4, <2>2, <2>3, <3>1, <3>2, <3>3, Zenon DEF CacheIsNewest
  <2> QED
      BY <2>4, <2>5, Zenon
<1>7. ASSUME NEW row \in evidenceRows', row.source = "kernel_fact" PROVE Correlated(row)'
  <2>1. row \in evidenceRows
        BY <1>1, <1>7 DEF Emit
  <2>2. Correlated(row)
        BY <1>7, <2>1, Zenon DEF MatchInv
  <2>3. Len(seen) \in Nat /\ Len(seen') \in Nat /\ Len(seen') >= Len(seen)
        BY <1>0, <1>2, <1>4
  <2> QED
      BY <1>0, <1>4, <2>2, <2>3, StaysCorrelated, Zenon
<1> QED
    BY <1>5, <1>6, <1>7, Zenon DEF MatchInv

\* A new fact is correlated with the newest claims of its Run.
LEMMA KernelKeepsMatch ==
    ASSUME MatchInv, NEW input \in Facts, NEW at \in ReceiptTimes, ProcessKernel(input, at)
    PROVE  MatchInv'
<1>0. PICK n, known, severity, fact, correlation :
          /\ n = sequence' /\ known = Len(seen) /\ severity = (IF input.blocked THEN 2 ELSE 1)
          /\ fact = [run |-> input.run, type |-> input.type, tool |-> input.tool, at |-> at]
          /\ correlation = Correlate(fact, Recent(input.run))
      BY Zenon
<1>1. PICK row : row = [source |-> "kernel_fact", id |-> n, run |-> input.run, at |-> at,
                        severity |-> severity, fact |-> fact, known |-> known, correlation |-> correlation]
      BY Zenon
<1>2. UNCHANGED <<seen, claims>>
      BY Zenon DEF ProcessKernel
<1>3. PICK later : evidenceRows' \subseteq evidenceRows \cup
                       {row, [source |-> "policy_decision", id |-> n, run |-> input.run, at |-> later, severity |-> 1]}
  <2>1. CASE Emit({row})
        BY <2>1, Zenon DEF Emit
  <2>2. ASSUME NEW later,
               Emit({row, [source |-> "policy_decision", id |-> n, run |-> input.run, at |-> later, severity |-> 1]})
        PROVE  evidenceRows' \subseteq evidenceRows \cup
                   {row, [source |-> "policy_decision", id |-> n, run |-> input.run, at |-> later, severity |-> 1]}
        BY <2>2, Zenon DEF Emit
  <2> QED
      BY <1>0, <1>1, <2>1, <2>2, ZenonT(30) DEF ProcessKernel
<1>4. Numbered' /\ CacheIsNewest'
      BY <1>2, Zenon DEF MatchInv, Numbered, CacheIsNewest
<1>5. /\ IsFact(row) /\ row.known = known /\ row.fact = fact /\ row.run = input.run /\ row.correlation = correlation
      /\ fact.run = input.run /\ fact.at = at
      BY <1>0, <1>1, ZenonT(30) DEF IsFact
<1>6. correlation = Correlate(fact, {seen[i] : i \in Newest(input.run, known)})
      BY <1>0, RecentIsNewest, Zenon DEF MatchInv
<1>7. known \in 0 .. Len(seen) /\ at \in Nat /\ Len(seen) \in Nat /\ Len(seen) >= Len(seen)
  <2>1. at \in Nat
        BY TimelineAssumption, Zenon
  <2> QED
      BY <1>0, <2>1 DEF MatchInv, Numbered
<1>8. Correlated(row)
      BY <1>5, <1>6, <1>7, Zenon DEF Correlated
<1>9. ASSUME NEW one \in evidenceRows', one.source = "kernel_fact" PROVE Correlated(one)'
  <2>1. one \in evidenceRows \/ one = row
        BY <1>3, <1>9
  <2>2. Correlated(one)
        BY <1>8, <1>9, <2>1, Zenon DEF MatchInv
  <2> QED
      BY <1>2, <1>7, <2>2, StaysCorrelated, Zenon
<1> QED
    BY <1>4, <1>9, Zenon DEF MatchInv

LEMMA MatchInvStep == MatchInv /\ [TimelineNext]_timelineVars => MatchInv'
<1> SUFFICES ASSUME MatchInv, [TimelineNext]_timelineVars PROVE MatchInv'
    BY Zenon
<1>1. ASSUME UNCHANGED <<seen, claims>>, evidenceRows' \subseteq evidenceRows PROVE MatchInv'
  <2>1. Numbered' /\ CacheIsNewest'
        BY <1>1, Zenon DEF MatchInv, Numbered, CacheIsNewest
  <2>2. Len(seen) \in Nat /\ Len(seen) >= Len(seen)
        BY DEF MatchInv, Numbered
  <2>3. ASSUME NEW row \in evidenceRows', row.source = "kernel_fact" PROVE Correlated(row)'
    <3>1. Correlated(row)
          BY <1>1, <2>3, Zenon DEF MatchInv
    <3> QED
        BY <1>1, <2>2, <3>1, StaysCorrelated, Zenon
  <2> QED
      BY <2>1, <2>3, Zenon DEF MatchInv
<1>2. CASE PruneRow
      BY <1>1, <1>2, Zenon DEF PruneRow
<1>3. CASE UNCHANGED timelineVars
      BY <1>1, <1>3, Zenon DEF timelineVars
<1> QED
    BY <1>2, <1>3, CheckpointKeepsMatch, KernelKeepsMatch, Zenon DEF TimelineNext

\* A served fact keeps all but its correlation.
LEMMA ServedFact ==
  ASSUME NEW row, NEW ids, IsFact(row)
  PROVE  LET item == ServedItem(row, ids)
         IN  /\ item.source = "kernel_fact" /\ item.run = row.run /\ item.fact = row.fact /\ item.known = row.known
             /\ item.correlation = InSnapshot(row.correlation, ids)
<1>1. PICK n, r, t, v, f, k, c :
          row = [source |-> "kernel_fact", id |-> n, run |-> r, at |-> t, severity |-> v,
                 fact |-> f, known |-> k, correlation |-> c]
      BY Zenon DEF IsFact
<1>2. PICK d : d = InSnapshot(row.correlation, ids)
      BY Zenon
<1>3. ServedItem(row, ids) = [row EXCEPT !.correlation = d]
      BY <1>1, <1>2, Zenon DEF ServedItem
<1>4. ServedItem(row, ids) = [source |-> "kernel_fact", id |-> n, run |-> r, at |-> t, severity |-> v,
                              fact |-> f, known |-> k, correlation |-> d]
      BY <1>1, <1>3
<1> QED
    BY <1>1, <1>2, <1>4

\* The best of the claims, by their places.
BestPlaces(row) ==
    {i \in Considered(row) : \A j \in Considered(row) \ {i} : Better(row, i, j)}

\* What the worker recorded for a fact.
LEMMA FactSelects ==
    ASSUME Numbered, NEW row, Correlated(row)
    PROVE  /\ row.correlation.selected = IF BestPlaces(row) # {} THEN CHOOSE i \in BestPlaces(row) : TRUE
                                         ELSE NoLink
           /\ {c.id : c \in row.correlation.candidates} = Considered(row)
           /\ NoLink \notin Considered(row)
<1> DEFINE score(i) == scoreCandidate(row.fact, seen[i])
<1>0. PICK considered, C : /\ considered = Considered(row)
                           /\ C = Candidates(row.fact, {seen[i] : i \in Newest(row.run, row.known)})
      BY Zenon
<1>1. /\ C = {score(i) : i \in considered} /\ considered \subseteq 1 .. row.known
      /\ \A i \in considered : score(i).id = i /\ Rated(score(i))
      /\ Ranked(C)
      BY <1>0, CandidatesAreConsidered, Zenon DEF Correlated
<1>2. Selects(row.correlation, C)
  <2>1. PICK recent : recent = {seen[i] : i \in Newest(row.run, row.known)}
        BY Zenon
  <2>2. row.correlation = Correlate(row.fact, recent) /\ C = Candidates(row.fact, recent)
        BY <1>0, <2>1, Zenon DEF Correlated
  <2>3. Selects(Correlate(row.fact, recent), Candidates(row.fact, recent))
        BY <1>1, <2>2, CorrelateSelects, Zenon
  <2> QED
      BY <2>2, <2>3, Zenon
<1>3. \A i, j : Better(row, i, j) <=> Beats(score(i), score(j))
      BY Zenon DEF Better, Beats
<1>4. NoLink \notin considered
  <2>1. 0 \notin 1 .. row.known
        BY DEF Correlated
  <2> QED
      BY <1>1, <2>1, Zenon DEF NoLink
<1> HIDE DEF score
<1>5. \A i, j \in considered : score(i) = score(j) => i = j
      BY <1>1, Zenon
<1>6. ASSUME NEW i \in considered PROVE i \in BestPlaces(row) <=> IsBest(score(i), C)
  <2>1. ASSUME i \in BestPlaces(row), NEW d \in C \ {score(i)} PROVE Beats(score(i), d)
    <3>1. PICK j \in considered : d = score(j)
          BY <1>1, <2>1, Zenon
    <3>2. j # i
          BY <2>1, <3>1, Zenon
    <3>3. Better(row, i, j)
          BY <1>0, <2>1, <3>2, Zenon DEF BestPlaces
    <3> QED
        BY <1>3, <3>1, <3>3, Zenon
  <2>2. ASSUME IsBest(score(i), C), NEW j \in considered \ {i} PROVE Better(row, i, j)
    <3>1. score(j) \in C \ {score(i)}
          BY <1>1, <1>5, <2>2, Zenon
    <3> QED
        BY <1>3, <2>2, <3>1, Zenon DEF IsBest
  <2>3. score(i) \in C
        BY <1>1, Zenon
  <2> QED
      BY <1>0, <2>1, <2>2, <2>3, Zenon DEF BestPlaces, IsBest
<1>7. BestPlaces(row) \subseteq considered
      BY <1>0, Zenon DEF BestPlaces
<1>8. {c.id : c \in row.correlation.candidates} = considered
  <2>1. row.correlation.candidates = C
        BY <1>2, Zenon DEF Selects
  <2>2. \A c \in C : c.id \in considered
        BY <1>1, Zenon
  <2>3. ASSUME NEW i \in considered PROVE \E c \in C : c.id = i
    <3>1. score(i) \in C /\ score(i).id = i
          BY <1>1, Zenon
    <3> QED
        BY <3>1, Zenon
  <2>4. {c.id : c \in C} = considered
        BY <2>2, <2>3, Zenon
  <2> QED
      BY <2>1, <2>4, Zenon
<1>9. CASE BestPlaces(row) # {}
  <2>1. PICK i : i = CHOOSE k \in BestPlaces(row) : TRUE
        BY Zenon
  <2>2. i \in BestPlaces(row)
        BY <1>9, <2>1, Zenon
  <2>3. IsBest(score(i), C) /\ score(i).id = i
        BY <1>1, <1>6, <1>7, <2>2, Zenon
  <2>4. row.correlation.selected = i
        BY <1>2, <2>3, Zenon DEF Selects
  <2> QED
      BY <1>0, <1>4, <1>9, <1>8, <2>1, <2>4, Zenon
<1>10. CASE BestPlaces(row) = {}
  <2>1. ASSUME NEW c PROVE ~IsBest(c, C)
    <3>1. IsBest(c, C) => \E i \in considered : c = score(i)
          BY <1>1, Zenon DEF IsBest
    <3> QED
        BY <1>6, <1>10, <3>1, Zenon
  <2>2. row.correlation.selected = NoLink
        BY <1>2, <2>1, Zenon DEF Selects
  <2> QED
      BY <1>0, <1>4, <1>10, <1>8, <2>2, Zenon
<1> QED
    BY <1>9, <1>10, Zenon

\* Evidence keeps the selection exactly if every candidate is in the snapshot.
LEMMA SnapshotKeepsTheBest ==
    ASSUME MatchInv, NEW s \in SUBSET evidenceRows, NEW row \in s, row.source = "kernel_fact"
    PROVE  LET item == ServedItem(row, ClaimIds(s))
               considered == Considered(item)
               best == {i \in considered : \A j \in considered \ {i} : Better(item, i, j)}
           IN  item.correlation.selected =
                   IF considered \subseteq ClaimIds(s) /\ best # {}
                   THEN CHOOSE i \in best : TRUE ELSE NoLink
<1>0. PICK ids, item, before, after :
          /\ ids = ClaimIds(s) /\ item = ServedItem(row, ids)
          /\ before = row.correlation /\ after = item.correlation
      BY Zenon
<1>1. Correlated(row) /\ Numbered /\ IsFact(row)
      BY Zenon DEF MatchInv, Correlated
<1>2. /\ item.run = row.run /\ item.fact = row.fact /\ item.known = row.known
      /\ after = InSnapshot(before, ids)
      BY <1>0, <1>1, ServedFact, Zenon
<1>3. Considered(item) = Considered(row)
      BY <1>2, Zenon DEF Considered
<1>4. BestPlaces(item) = BestPlaces(row)
  <2>1. \A i, j : Better(item, i, j) <=> Better(row, i, j)
        BY <1>2, Zenon DEF Better
  <2> QED
      BY <1>3, <2>1, Zenon DEF BestPlaces
<1>5. PICK considered, best : considered = Considered(row) /\ best = BestPlaces(row)
      BY Zenon
<1>6. /\ before.selected = IF best # {} THEN CHOOSE i \in best : TRUE ELSE NoLink
      /\ {c.id : c \in before.candidates} = considered
      /\ best \subseteq considered
  <2>1. best \subseteq considered
        BY <1>5, Zenon DEF BestPlaces
  <2> QED
      BY <1>0, <1>1, <1>5, <2>1, FactSelects, Zenon
<1>7. PICK kept : kept = {c \in before.candidates : c.id \in ids}
      BY Zenon
<1>8. kept = before.candidates <=> considered \subseteq ids
      BY <1>6, <1>7, Zenon
<1>9. CASE considered \subseteq ids
  <2>1. before.selected \in ids \cup {NoLink}
    <3>1. CASE best = {}
          BY <1>6, <3>1, Zenon
    <3>2. CASE best # {}
      <4>1. (CHOOSE i \in best : TRUE) \in best
            BY <3>2, Zenon
      <4> QED
          BY <1>6, <1>9, <3>2, <4>1, Zenon
    <3> QED
        BY <3>1, <3>2, Zenon
  <2>2. InSnapshot(before, ids) = before
        BY <1>7, <1>8, <1>9, <2>1, Zenon DEF InSnapshot
  <2>3. after.selected = IF considered \subseteq ids /\ best # {} THEN CHOOSE i \in best : TRUE ELSE NoLink
        BY <1>2, <1>6, <1>9, <2>2, Zenon
  <2> QED
      BY <1>0, <1>3, <1>4, <1>5, <2>3, Zenon DEF BestPlaces
<1>10. CASE ~(considered \subseteq ids)
  <2>1. InSnapshot(before, ids).selected = NoLink
        BY <1>7, <1>8, <1>10, Zenon DEF InSnapshot
  <2>3. after.selected = IF considered \subseteq ids /\ best # {} THEN CHOOSE i \in best : TRUE ELSE NoLink
        BY <1>2, <1>10, <2>1, Zenon
  <2> QED
      BY <1>0, <1>3, <1>4, <1>5, <2>3, Zenon DEF BestPlaces
<1> QED
    BY <1>9, <1>10, Zenon

\* A served fact names a checkpoint exactly if that is the one best of the
\* newest claims of its Run, and all the claims with the minimum score are in
\* the timeline: for any cache, windows and read limit, whatever the writer
\* refused and the store pruned (Correlate, RuntimePipeline.processKernel and
\* StoredEvidenceProvider.Evidence).
THEOREM MatchesAreTheBest == TimelineSpec => []MatchIsTheBest
<1>1. ASSUME MatchInv PROVE MatchIsTheBest
  <2> SUFFICES ASSUME NEW run \in TimelineRuns, NEW s \in Snapshots(run), NEW item \in Served(s),
                      item.source = "kernel_fact"
               PROVE  LET considered == Considered(item)
                          best == {i \in considered : \A j \in considered \ {i} : Better(item, i, j)}
                      IN  item.correlation.selected =
                              IF considered \subseteq ClaimIds(s) /\ best # {}
                              THEN CHOOSE i \in best : TRUE ELSE NoLink
      BY Zenon DEF MatchIsTheBest
  <2>1. PICK row \in s : item = ServedItem(row, ClaimIds(s))
        BY Zenon DEF Served
  <2>2. s \in SUBSET evidenceRows
        BY Zenon DEF Snapshots
  <2>3. row.source = "kernel_fact"
    <3>1. row.source # "kernel_fact" => item = row
          BY <2>1, Zenon DEF ServedItem
    <3> QED
        BY <3>1, Zenon
  <2> QED
      BY <1>1, <2>1, <2>2, <2>3, SnapshotKeepsTheBest, Zenon
<1> QED
    BY <1>1, MatchInvInit, MatchInvStep, PTL DEF TimelineSpec

-----------------------------------------------------------------------------
(* Tickets and connections. *)

Open == {r \in StreamRequests : request[r].pc = "open"}

RequestRecord == [pc : {"idle", "consuming", "authorized", "open"}, ticket : Int, now : Int]

TicketTypeInv ==
    /\ clock \in Int
    /\ issuedAt \in Seq(Int)
    /\ request \in [StreamRequests -> RequestRecord]
    /\ admissions \in Seq([ticket : Int, at : Int])

\* A ticket in the table was issued, and holds the expiry it was issued with.
TableIsIssued ==
    \A t \in DOMAIN tickets : t \in DOMAIN issuedAt /\ tickets[t] = issuedAt[t] + TicketTTL

\* A ticket that admitted a request was issued and has left the table.
AdmittedIsSpent ==
    \A i \in DOMAIN admissions :
        admissions[i].ticket \in DOMAIN issuedAt /\ admissions[i].ticket \notin DOMAIN tickets

TicketInv == TicketTypeInv /\ TableIsIssued /\ AdmittedIsSpent /\ TicketAdmitsOnce

-----------------------------------------------------------------------------
\* Pruning only removes entries.
LEMMA PruneKeeps ==
    ASSUME NEW n
    PROVE  /\ DOMAIN pruneTickets(n) \subseteq DOMAIN tickets
           /\ \A t \in DOMAIN pruneTickets(n) : pruneTickets(n)[t] = tickets[t]
BY Zenon DEF pruneTickets

\* Issuing a ticket: its number was never used.
LEMMA ServeTicketStep ==
    ASSUME TicketInv, NEW n \in 0 .. MaxClock, serveTicket(n)
    PROVE  TicketInv'
<1> USE DEF TicketInv
<1> DEFINE held == pruneTickets(clock)
           new == Len(issuedAt) + 1
<1>1. UNCHANGED <<clock, connections, request, admissions>>
      BY Zenon DEF serveTicket
<1>2. DOMAIN held \subseteq DOMAIN tickets /\ \A t \in DOMAIN held : held[t] = tickets[t]
      BY PruneKeeps, Zenon
<1>3. CASE tickets' = held /\ UNCHANGED issuedAt
      BY <1>1, <1>2, <1>3, Zenon DEF TicketTypeInv, TableIsIssued, AdmittedIsSpent, TicketAdmitsOnce
<1>4. CASE /\ issuedAt' = Append(issuedAt, n)
           /\ tickets' = [u \in DOMAIN held \cup {new} |-> IF u = new THEN n + TicketTTL ELSE held[u]]
  <2> HIDE DEF held
  <2>1. issuedAt' \in Seq(Int) /\ DOMAIN issuedAt' = 1 .. new /\ new \notin DOMAIN issuedAt
        BY <1>4, TicketAssumption DEF TicketTypeInv
  <2>2. \A t \in DOMAIN issuedAt : t \in DOMAIN issuedAt' /\ issuedAt'[t] = issuedAt[t]
        BY <1>4 DEF TicketTypeInv
  <2>3. new \in DOMAIN issuedAt' /\ issuedAt'[new] = n
        BY <1>4, TicketAssumption DEF TicketTypeInv
  <2>4. TicketTypeInv'
        BY <1>1, <2>1, Zenon DEF TicketTypeInv
  <2>5. TableIsIssued'
    <3> SUFFICES ASSUME NEW t \in DOMAIN tickets'
                 PROVE  t \in DOMAIN issuedAt' /\ tickets'[t] = issuedAt'[t] + TicketTTL
        BY Zenon DEF TableIsIssued
    <3>1. CASE t = new
          BY <1>4, <2>3, <3>1, Zenon
    <3>2. CASE t # new
          BY <1>2, <1>4, <2>2, <3>2, Zenon DEF TableIsIssued
    <3> QED
        BY <3>1, <3>2, Zenon
  <2>6. AdmittedIsSpent'
        BY <1>1, <1>2, <1>4, <2>1, <2>2, Zenon DEF AdmittedIsSpent
  <2>7. TicketAdmitsOnce'
        BY <1>1, <2>2, Zenon DEF TicketAdmitsOnce, AdmittedIsSpent
  <2> QED
      BY <2>4, <2>5, <2>6, <2>7, Zenon
<1> QED
    BY <1>3, <1>4, Zenon DEF serveTicket

\* Consuming a ticket: the entry is deleted in the step that admits.
LEMMA ConsumeStep ==
    ASSUME TicketInv, NEW r \in StreamRequests, consumeTicket(r)
    PROVE  TicketInv'
<1> USE DEF TicketInv
<1> DEFINE held == pruneTickets(request[r].now)
           t == request[r].ticket
           at == request[r].now
           good == t \in DOMAIN held /\ at < held[t]
           admission == [ticket |-> t, at |-> at]
<1>1. /\ UNCHANGED <<clock, issuedAt, connections>>
      /\ tickets' = [u \in DOMAIN held \ {t} |-> held[u]]
      /\ request' = [request EXCEPT ![r].pc = IF good THEN "authorized" ELSE "idle"]
      /\ admissions' = IF good THEN Append(admissions, admission) ELSE admissions
      BY Zenon DEF consumeTicket, Outcome
<1>2. DOMAIN held \subseteq DOMAIN tickets /\ \A u \in DOMAIN held : held[u] = tickets[u]
      BY PruneKeeps, Zenon
<1>3. admission \in [ticket : Int, at : Int] /\ admission.ticket = t /\ admission.at = at
      BY Zenon DEF TicketTypeInv, RequestRecord
<1> HIDE DEF held, admission
<1>4. request' \in [StreamRequests -> RequestRecord]
      BY <1>1, Zenon DEF TicketTypeInv, RequestRecord
<1>5. TableIsIssued'
      BY <1>1, <1>2, Zenon DEF TableIsIssued
<1>6. CASE ~good
      BY <1>1, <1>2, <1>4, <1>5, <1>6, Zenon DEF TicketTypeInv, AdmittedIsSpent, TicketAdmitsOnce
<1>7. CASE good
  <2>1. /\ admissions' \in Seq([ticket : Int, at : Int])
        /\ DOMAIN admissions' = DOMAIN admissions \cup {Len(admissions) + 1}
        /\ \A i \in DOMAIN admissions : admissions'[i] = admissions[i]
        /\ admissions'[Len(admissions) + 1] = admission
        BY <1>1, <1>3, <1>7 DEF TicketTypeInv
  <2>2. t \in DOMAIN issuedAt /\ at < issuedAt[t] + TicketTTL /\ t \in DOMAIN tickets
        BY <1>2, <1>7, Zenon DEF TableIsIssued
  <2>3. t \notin DOMAIN tickets' /\ DOMAIN tickets' \subseteq DOMAIN tickets
        BY <1>1, <1>2, Zenon
  <2>4. AdmittedIsSpent'
        BY <1>1, <1>3, <2>1, <2>2, <2>3, SMTT(30) DEF AdmittedIsSpent
  <2>5. TicketAdmitsOnce'
    <3>1. \A i \in DOMAIN admissions : admissions[i].ticket # t
          BY <2>2, Zenon DEF AdmittedIsSpent
    <3>2. ASSUME NEW i \in DOMAIN admissions', NEW j \in DOMAIN admissions',
                 admissions'[i].ticket = admissions'[j].ticket
          PROVE  i = j
      <4>1. CASE i \in DOMAIN admissions /\ j \in DOMAIN admissions
            BY <2>1, <3>2, <4>1, Zenon DEF TicketAdmitsOnce
      <4>2. CASE i = Len(admissions) + 1 \/ j = Len(admissions) + 1
            BY <1>3, <2>1, <3>1, <3>2, <4>2, Zenon
      <4> QED
          BY <2>1, <4>1, <4>2, Zenon
    <3>3. ASSUME NEW i \in DOMAIN admissions'
          PROVE  admissions'[i].at < issuedAt'[admissions'[i].ticket] + TicketTTL
      <4>1. CASE i \in DOMAIN admissions
            BY <1>1, <2>1, <4>1, Zenon DEF TicketAdmitsOnce
      <4>2. CASE i = Len(admissions) + 1
            BY <1>1, <1>3, <2>1, <2>2, <4>2, Zenon
      <4> QED
          BY <2>1, <4>1, <4>2, Zenon
    <3> QED
        BY <3>2, <3>3, Zenon DEF TicketAdmitsOnce
  <2> QED
      BY <1>1, <1>4, <1>5, <2>1, <2>4, <2>5, Zenon DEF TicketTypeInv
<1> QED
    BY <1>6, <1>7, Zenon

\* The other steps leave tickets and admissions alone.
LEMMA OtherTicketStep ==
    ASSUME TicketInv, UNCHANGED <<issuedAt, tickets, admissions>>,
           clock' \in Int, request' \in [StreamRequests -> RequestRecord]
    PROVE  TicketInv'
BY Zenon DEF TicketInv, TicketTypeInv, TableIsIssued, AdmittedIsSpent, TicketAdmitsOnce

LEMMA TicketStep == TicketInv /\ [TicketNext]_ticketVars => TicketInv'
<1> SUFFICES ASSUME TicketInv, [TicketNext]_ticketVars PROVE TicketInv'
    BY Zenon
<1>0. clock \in Int /\ request \in [StreamRequests -> RequestRecord] /\ DOMAIN issuedAt \subseteq Int
      BY DEF TicketInv, TicketTypeInv
<1>1. CASE UNCHANGED ticketVars
      BY <1>0, <1>1, OtherTicketStep, Zenon DEF ticketVars
<1>2. CASE TimePasses
      BY <1>0, <1>2, OtherTicketStep DEF TimePasses
<1>3. ASSUME NEW r \in StreamRequests, NEW t \in Issued, BeginConsume(r, t) PROVE TicketInv'
  <2>1. [pc |-> "consuming", ticket |-> t, now |-> clock] \in RequestRecord
        BY <1>0, Zenon DEF Issued, RequestRecord
  <2>2. request' \in [StreamRequests -> RequestRecord]
        BY <1>0, <1>3, <2>1, Zenon DEF BeginConsume
  <2> QED
      BY <1>0, <1>3, <2>2, OtherTicketStep, Zenon DEF BeginConsume
<1>4. ASSUME NEW r \in StreamRequests,
             authorizeBearer(r) \/ RefuseQuery(r) \/ acquireConnection(r) \/ releaseConnection(r)
      PROVE  TicketInv'
  <2>1. \E p \in {"idle", "authorized", "open"} : request' = [request EXCEPT ![r].pc = p]
        BY <1>4, Zenon DEF authorizeBearer, RefuseQuery, acquireConnection, releaseConnection
  <2>2. request' \in [StreamRequests -> RequestRecord]
        BY <1>0, <2>1, Zenon DEF RequestRecord
  <2>3. UNCHANGED <<clock, issuedAt, tickets, admissions>>
        BY <1>4, Zenon DEF authorizeBearer, RefuseQuery, acquireConnection, releaseConnection
  <2> QED
      BY <1>0, <2>2, <2>3, OtherTicketStep, Zenon
<1> QED
    BY <1>1, <1>2, <1>3, <1>4, ServeTicketStep, ConsumeStep, Zenon DEF TicketNext

\* consumeTicket prunes, reads and deletes under one lock, with a time read
\* before it: still no ticket admits twice, or after it expired.
THEOREM TicketsAdmitOnce == TicketSpec => []TicketAdmitsOnce
<1>1. TicketInit => TicketInv
      BY DEF TicketInit, TicketInv, TicketTypeInv, TableIsIssued, AdmittedIsSpent, TicketAdmitsOnce, RequestRecord
<1>2. TicketInv => TicketAdmitsOnce
      BY Zenon DEF TicketInv
<1> QED
    BY <1>1, <1>2, TicketStep, PTL DEF TicketSpec

-----------------------------------------------------------------------------
ConnectionInv ==
    /\ IsFiniteSet(Open) /\ connections = Cardinality(Open) /\ connections <= MaxConnections

\* acquireConnection checks and counts under the lock, and every connection
\* counted is released once: the count is exact and within its limit.
THEOREM ConnectionsAreBounded == TicketSpec => []ConnectionsBounded
<1>1. TicketInit => TicketInv /\ ConnectionInv
  <2> SUFFICES ASSUME TicketInit PROVE ConnectionInv
      BY DEF TicketInit, TicketInv, TicketTypeInv, TableIsIssued, AdmittedIsSpent, TicketAdmitsOnce, RequestRecord
  <2>1. Open = {}
        BY Zenon DEF TicketInit, Open
  <2> QED
      BY <2>1, FS_EmptySet, TicketAssumption DEF TicketInit, ConnectionInv
<1>2. ASSUME TicketInv, ConnectionInv, [TicketNext]_ticketVars PROVE ConnectionInv'
  <2> USE <1>2
  <2>0. request \in [StreamRequests -> RequestRecord] /\ Cardinality(Open) \in Nat
        BY FS_CardinalityType, Zenon DEF TicketInv, TicketTypeInv, ConnectionInv
  <2>1. CASE UNCHANGED <<request, connections>>
        BY <2>1, Zenon DEF ConnectionInv, Open
  <2>2. ASSUME NEW r \in StreamRequests, NEW v, request[r].pc # "open", v.pc # "open",
               request' = [request EXCEPT ![r] = v], UNCHANGED connections
        PROVE  ConnectionInv'
    <3>1. Open' = Open
          BY <2>0, <2>2, Zenon DEF Open
    <3> QED
        BY <2>2, <3>1, Zenon DEF ConnectionInv
  <2>3. ASSUME NEW r \in StreamRequests, request[r].pc # "open",
               request' = [request EXCEPT ![r].pc = "open"],
               connections < MaxConnections, connections' = connections + 1
        PROVE  ConnectionInv'
    <3>1. Open' = Open \cup {r} /\ r \notin Open
          BY <2>0, <2>3, Zenon DEF Open, RequestRecord
    <3> QED
        BY <2>0, <2>3, <3>1, FS_AddElement, TicketAssumption DEF ConnectionInv
  <2>4. ASSUME NEW r \in StreamRequests, releaseConnection(r) PROVE ConnectionInv'
    <3>1. Open' = Open \ {r} /\ r \in Open
          BY <2>0, <2>4, Zenon DEF Open, RequestRecord, releaseConnection
    <3> QED
        BY <2>0, <2>4, <3>1, FS_RemoveElement, TicketAssumption DEF ConnectionInv, releaseConnection
  <2>5. ASSUME NEW r \in StreamRequests, NEW p, p # "open", request[r].pc # "open",
               request' = [request EXCEPT ![r].pc = p], UNCHANGED connections
        PROVE  ConnectionInv'
    <3>1. Open' = Open
          BY <2>0, <2>5, Zenon DEF Open, RequestRecord
    <3> QED
        BY <2>5, <3>1, Zenon DEF ConnectionInv
  <2>6. ASSUME NEW r \in StreamRequests, NEW t \in Issued, BeginConsume(r, t) PROVE ConnectionInv'
        BY <2>2, <2>6, Zenon DEF BeginConsume
  <2>7. ASSUME NEW r \in StreamRequests, consumeTicket(r) PROVE ConnectionInv'
        BY <2>5, <2>7, Zenon DEF consumeTicket, Outcome
  <2>8. ASSUME NEW r \in StreamRequests, authorizeBearer(r) \/ RefuseQuery(r) PROVE ConnectionInv'
        BY <2>5, <2>8, Zenon DEF authorizeBearer, RefuseQuery
  <2>9. ASSUME NEW r \in StreamRequests, acquireConnection(r) PROVE ConnectionInv'
    <3>1. CASE connections >= MaxConnections
          BY <2>5, <2>9, <3>1, Zenon DEF acquireConnection
    <3>2. CASE connections < MaxConnections
      <4>1. ~(connections >= MaxConnections)
            BY <2>0, <3>2, TicketAssumption DEF ConnectionInv
      <4>2. /\ request[r].pc # "open"
            /\ request' = [request EXCEPT ![r].pc = "open"]
            /\ connections' = connections + 1
            BY <2>9, <4>1, Zenon DEF acquireConnection
      <4> QED
          BY <2>3, <3>2, <4>2, Zenon
    <3> QED
        BY <2>0, <3>1, <3>2, TicketAssumption DEF ConnectionInv
  <2>10. CASE TimePasses \/ (\E n \in 0 .. MaxClock : serveTicket(n)) \/ UNCHANGED ticketVars
         BY <2>1, <2>10, Zenon DEF TimePasses, serveTicket, ticketVars
  <2> QED
      BY <2>4, <2>6, <2>7, <2>8, <2>9, <2>10, Zenon DEF TicketNext
<1>3. ConnectionInv => ConnectionsBounded
      BY Zenon DEF ConnectionInv, ConnectionsBounded, Open
<1> QED
    BY <1>1, <1>2, <1>3, TicketStep, PTL DEF TicketSpec

=============================================================================
