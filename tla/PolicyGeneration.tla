-------------------------- MODULE PolicyGeneration --------------------------
(***************************************************************************)
(* internal/policy/generation.go: GenerationUpdater over a store with two   *)
(* banks of rule and profile maps and a selector of the active one.         *)
(*                                                                         *)
(* Updaters are separate processes on one store; each may fail, be          *)
(* cancelled or crash at every step, and the banks survive.  The store      *)
(* keeps the contract of the BankStore interface: updates exclude each      *)
(* other and Activate compares and switches at once.  Its map writes are    *)
(* not trusted: a reset or a put may report success and do something else,  *)
(* which is what the readback is for.                                       *)
(***************************************************************************)
EXTENDS Integers, Sequences, FiniteSets

CONSTANTS Updaters, NoUpdater,
          Images,                          \* the images callers try to commit
          Values, NoValue,                 \* byte strings; the empty one
          RuleCapacity, ProfileCapacity,
          MaxRevision                      \* math.MaxUint64

Banks == {"A", "B"}
MapEntry == [key : Nat, value : Values \cup {NoValue}]
BankImage == [rules : Seq(MapEntry), profiles : Seq(MapEntry)]
Generation == [revision : 0..MaxRevision, bank : Banks]
Blank == [rules |-> <<>>, profiles |-> <<>>]

ASSUME GenerationAssumption ==
    /\ NoUpdater \notin Updaters
    /\ NoValue \notin Values
    /\ Images \subseteq BankImage
    /\ RuleCapacity \in Nat \ {0} /\ ProfileCapacity \in Nat \ {0}
    /\ MaxRevision \in Nat

VARIABLES selector,   \* the store's selector
          banks,      \* the store's maps
          lock,       \* the updater whose update is open
          updater,    \* the calls in progress
          committed,  \* history: the requests committed, by revision
          recovered   \* history: what Recover returned, or that it refused

generationVars == <<selector, banks, lock, updater, committed, recovered>>

UpdaterRecord ==
    [pc : {"idle", "begin", "write", "activate", "clear"}, call : {"Commit", "Recover"},
     image : BankImage, active : Generation, written : Nat]

IdleUpdater == [pc |-> "idle", call |-> "Commit", image |-> Blank,
                active |-> [revision |-> 0, bank |-> "A"], written |-> 0]

GenerationInit ==
    /\ selector = [revision |-> 0, bank |-> "A"]
    /\ banks = [b \in Banks |-> Blank]
    /\ lock = NoUpdater
    /\ updater = [u \in Updaters |-> IdleUpdater]
    /\ committed = <<>>
    /\ recovered = {}

-----------------------------------------------------------------------------
(* Images. *)

MutantOtherBank(bank) == bank

otherBank(bank) == IF bank = "A" THEN "B" ELSE "A"

Elements(entries) == {entries[i] : i \in DOMAIN entries}

validateMapEntries(entries) ==
    /\ \A i \in DOMAIN entries : entries[i].key # 0 /\ entries[i].value # NoValue
    /\ \A i, j \in DOMAIN entries : entries[i].key = entries[j].key => i = j

validateBankImage(image, ruleCapacity, profileCapacity) ==
    /\ Len(image.rules) <= ruleCapacity
    /\ Len(image.profiles) <= profileCapacity
    /\ validateMapEntries(image.rules)
    /\ validateMapEntries(image.profiles)

\* Lists without a repeated key, in any order.
equalEntries(first, second) ==
    Len(first) = Len(second) /\ Elements(first) = Elements(second)

verifyBankImage(expected, actual) ==
    /\ validateBankImage(actual, Len(expected.rules), Len(expected.profiles))
    /\ equalEntries(expected.rules, actual.rules)
    /\ equalEntries(expected.profiles, actual.profiles)

\* A map update: the key's entry is replaced or a new one added.
Put(entries, e) ==
    IF \E i \in DOMAIN entries : entries[i].key = e.key
    THEN [i \in DOMAIN entries |-> IF entries[i].key = e.key THEN e ELSE entries[i]]
    ELSE Append(entries, e)

-----------------------------------------------------------------------------
(* The open update of u. *)

Inactive(u) == otherBank(updater[u].active.bank)

NextGeneration(u) == [revision |-> updater[u].active.revision + 1, bank |-> Inactive(u)]

\* update.Close, deferred.
CloseUpdate(u) ==
    /\ lock' = NoUpdater
    /\ updater' = [updater EXCEPT ![u] = IdleUpdater]

\* A refused image is answered with an error at once.
Commit(u, image) ==
    /\ updater[u].pc = "idle"
    /\ validateBankImage(image, RuleCapacity, ProfileCapacity)
    /\ updater' = [updater EXCEPT ![u] = [IdleUpdater EXCEPT !.pc = "begin", !.image = image]]
    /\ UNCHANGED <<selector, banks, lock, committed, recovered>>

Recover(u) ==
    /\ updater[u].pc = "idle"
    /\ updater' = [updater EXCEPT ![u] = [IdleUpdater EXCEPT !.pc = "begin", !.call = "Recover"]]
    /\ UNCHANGED <<selector, banks, lock, committed, recovered>>

\* What a bank may hold after a reset that reported success.
AfterReset(image) ==
    [rules : {<<>>, image.rules}, profiles : {<<>>, image.profiles}]

\* BeginUpdate, Active and Reset.
BeginCommit(u) ==
    /\ updater[u].pc = "begin" /\ updater[u].call = "Commit"
    /\ lock = NoUpdater
    /\ selector.revision # MaxRevision
    /\ lock' = u
    /\ updater' = [updater EXCEPT ![u] = [@ EXCEPT !.pc = "write", !.active = selector]]
    /\ \E image \in AfterReset(banks[otherBank(selector.bank)]) :
           banks' = [banks EXCEPT ![otherBank(selector.bank)] = image]
    /\ UNCHANGED <<selector, committed, recovered>>

\* What the map holds after a put of e that reported success: e, nothing new,
\* or e with another value.
AfterPut(entries, e) ==
    {entries} \cup {Put(entries, [e EXCEPT !.value = v]) : v \in Values}

\* PutRule for each rule, then PutProfile for each profile.
PutEntry(u) ==
    LET image == updater[u].image
        n     == updater[u].written + 1
        b     == Inactive(u)
    IN  /\ updater[u].pc = "write"
        /\ \/ /\ n \in DOMAIN image.rules
              /\ \E entries \in AfterPut(banks[b].rules, image.rules[n]) :
                     banks' = [banks EXCEPT ![b].rules = entries]
           \/ /\ n - Len(image.rules) \in DOMAIN image.profiles
              /\ \E entries \in AfterPut(banks[b].profiles, image.profiles[n - Len(image.rules)]) :
                     banks' = [banks EXCEPT ![b].profiles = entries]
        /\ updater' = [updater EXCEPT ![u].written = n]
        /\ UNCHANGED <<selector, lock, committed, recovered>>

\* Read and verifyBankImage; a difference is an error.
Readback(u) ==
    LET image == updater[u].image
    IN  /\ updater[u].pc = "write"
        /\ updater[u].written = Len(image.rules) + Len(image.profiles)
        /\ verifyBankImage(image, banks[Inactive(u)])
        /\ updater' = [updater EXCEPT ![u].pc = "activate"]
        /\ UNCHANGED <<selector, banks, lock, committed, recovered>>

\* Activate compares the selector with what the update read.
Activate(u) ==
    /\ updater[u].pc = "activate"
    /\ selector = updater[u].active
    /\ selector' = NextGeneration(u)
    /\ committed' = Append(committed, updater[u].image)
    /\ CloseUpdate(u)
    /\ UNCHANGED <<banks, recovered>>

Refused == [generation |-> selector, image |-> Blank, valid |-> FALSE]

\* BeginUpdate, Active, Read and validation; nothing is recovered from
\* generation zero.
BeginRecover(u) ==
    LET image == banks[selector.bank]
    IN  /\ updater[u].pc = "begin" /\ updater[u].call = "Recover"
        /\ lock = NoUpdater
        /\ selector.revision # 0
        /\ \/ /\ validateBankImage(image, RuleCapacity, ProfileCapacity)
              /\ lock' = u
              /\ updater' = [updater EXCEPT ![u] = [@ EXCEPT !.pc = "clear", !.active = selector,
                                                             !.image = image]]
              /\ UNCHANGED recovered
           \/ /\ ~validateBankImage(image, RuleCapacity, ProfileCapacity)
              /\ recovered' = recovered \cup {Refused}
              /\ updater' = [updater EXCEPT ![u] = IdleUpdater]
              /\ UNCHANGED lock
        /\ UNCHANGED <<selector, banks, committed>>

ClearStaging(u) ==
    /\ updater[u].pc = "clear"
    /\ \E image \in AfterReset(banks[Inactive(u)]) : banks' = [banks EXCEPT ![Inactive(u)] = image]
    /\ recovered' = recovered \cup
           {[generation |-> updater[u].active, image |-> updater[u].image, valid |-> TRUE]}
    /\ CloseUpdate(u)
    /\ UNCHANGED <<selector, committed>>

\* An error of the store, a cancelled context, a failed verification, an
\* exhausted revision, nothing to recover, or a crash: the update closes and
\* the banks stay as they are.
Abandon(u) ==
    /\ updater[u].pc # "idle"
    /\ lock' = IF lock = u THEN NoUpdater ELSE lock
    /\ updater' = [updater EXCEPT ![u] = IdleUpdater]
    /\ UNCHANGED <<selector, banks, committed, recovered>>

GenerationNext ==
    \E u \in Updaters :
        \/ \E image \in Images : Commit(u, image)
        \/ Recover(u)
        \/ BeginCommit(u)
        \/ PutEntry(u)
        \/ Readback(u)
        \/ Activate(u)
        \/ BeginRecover(u)
        \/ ClearStaging(u)
        \/ Abandon(u)

GenerationSpec == GenerationInit /\ [][GenerationNext]_generationVars
-----------------------------------------------------------------------------
(* Properties. *)

\* Every variable has its type; no revision is past the last one, whose successor
\* would wrap to zero.
GenerationTypeOK ==
    /\ selector \in Generation
    /\ banks \in [Banks -> BankImage]
    /\ lock \in Updaters \cup {NoUpdater}
    /\ updater \in [Updaters -> UpdaterRecord]
    /\ committed \in Seq(BankImage)
    /\ recovered \in SUBSET [generation : Generation, image : BankImage, valid : BOOLEAN]

\* The same entries, whatever the order of the map's iteration.
SameContent(image, other) ==
    /\ equalEntries(image.rules, other.rules)
    /\ equalEntries(image.profiles, other.profiles)

\* docs/policy-schema.md: a failed preparation or activation retains the prior
\* generation.  At every moment, also in the middle of an update and after a
\* crash, the active bank holds exactly the request committed last, although
\* writes may be lost or altered without an error.
ActiveBankIsCommitted ==
    /\ selector.revision = Len(committed)
    /\ selector.revision # 0 => SameContent(committed[selector.revision], banks[selector.bank])

\* Recover returns the committed image of the generation it names, whatever was
\* left in the banks, and never refuses one that was committed.
RecoveredIsCommitted ==
    \A r \in recovered :
        /\ r.valid
        /\ r.generation.revision \in DOMAIN committed
        /\ SameContent(committed[r.generation.revision], r.image)
=============================================================================
