-------------------------- MODULE InspectionProofs --------------------------
(***************************************************************************)
(* Proofs about Inspection: receipts and single-use approvals, for any      *)
(* bodies, rules and number of slots.                                       *)
(***************************************************************************)
EXTENDS Inspection, FiniteSetTheorems, TLAPS

-----------------------------------------------------------------------------
(* The local checker. *)

IsBag(b) == b = [e \in DOMAIN b |-> b[e]] /\ \A e \in DOMAIN b : b[e] \in Nat \ {0}

LEMMA CopiesAreCounted == ASSUME NEW b, IsBag(b), NEW e PROVE Copies(e, b) \in Nat
BY Zenon DEF Copies, BagIn, BagToSet, IsBag

\* One more copy of an element.
HasOneMore(b, d, c) ==
    /\ IsBag(c) /\ DOMAIN c = DOMAIN b \cup {d}
    /\ Copies(d, c) = Copies(d, b) + 1
    /\ \A e : e # d => Copies(e, c) = Copies(e, b)
    /\ \A e : Copies(e, b) <= Copies(e, c)

LEMMA AddOne ==
    ASSUME NEW b, IsBag(b), NEW d
    PROVE  HasOneMore(b, d, b (+) SetToBag({d}))
<1> DEFINE c == b (+) SetToBag({d})
<1>0. SUFFICES HasOneMore(b, d, c)
      BY Zenon
<1>1. c = [e \in DOMAIN b \cup {d} |-> (IF e \in DOMAIN b THEN b[e] ELSE 0) + (IF e \in {d} THEN 1 ELSE 0)]
      BY Zenon DEF SetToBag, (+)
<1> HIDE DEF c
<1>2. DOMAIN c = DOMAIN b \cup {d}
      BY <1>1, Zenon
<1>3. c[d] = (IF d \in DOMAIN b THEN b[d] ELSE 0) + 1 /\ \A e \in DOMAIN b : e # d => c[e] = b[e]
      BY <1>1 DEF IsBag
<1>4. IsBag(c)
  <2>1. ASSUME NEW e \in DOMAIN c PROVE c[e] \in Nat \ {0}
    <3>1. CASE e = d
      <4>1. PICK n \in Nat : c[d] = n + 1
            BY <1>3, Zenon DEF IsBag
      <4> QED
          BY <3>1, <4>1
    <3>2. CASE e # d
          BY <1>2, <1>3, <2>1, <3>2, Zenon DEF IsBag
    <3> QED
        BY <3>1, <3>2, Zenon
  <2>2. c = [e \in DOMAIN c |-> c[e]]
        BY <1>1, Zenon
  <2> QED
      BY <2>1, <2>2, Zenon DEF IsBag
<1>5. Copies(d, c) = Copies(d, b) + 1
      BY <1>2, <1>3, Zenon DEF Copies, BagIn, BagToSet, IsBag
<1>6. ASSUME NEW e, e # d PROVE Copies(e, c) = Copies(e, b)
      BY <1>2, <1>3, <1>6, Zenon DEF Copies, BagIn, BagToSet
<1>7. ASSUME NEW e PROVE Copies(e, b) <= Copies(e, c)
  <2>1. Copies(e, b) \in Nat
        BY CopiesAreCounted, Zenon
  <2> QED
      BY <1>5, <1>6, <2>1
<1> QED
    BY <1>2, <1>4, <1>5, <1>6, <1>7, Zenon DEF HasOneMore

Reasons == {"", "request_budget", "definition_changed", "tool_denied", "argument_required", "ok", "argument_denied",
            "argument_out_of_range", "json", "unsupported_content", "body_limit", "invalid_json",
            "sensitive_data", "checked", "approval_required", "inactive_run"}

Stages == {"budget", "content", "approval", "active", "result"}

CheckRecord == [pc : Stages, run : InspectRuns, body : InspectBodies, reason : Reasons]

ApprovalKeys == {approvalKey(run, body.route, body.digest) : run \in InspectRuns, body \in InspectBodies}

CheckedAnswer(k) == Decision(k.run, k.route, k.digest, "checked")
GrantOf(k) == Decision(k.run, k.route, k.digest, "approval_granted")

InspectTypeInv ==
    /\ IsBag(stored) /\ IsBag(answers)
    /\ checks \in [Slots -> CheckRecord \cup {IdleCheck}]
    /\ activeRuns \in SUBSET InspectRuns

\* Only a request past its approval carries the reason "checked".
CheckedIsPast ==
    /\ \A q \in Slots : checks[q].pc = "result" \/ checks[q].pc = "active" \/ checks[q].pc = "idle"
                        \/ checks[q].reason # "checked"
    /\ \A d \in DOMAIN answers : d.reason = "checked" => \E k \in ApprovalKeys : d = CheckedAnswer(k)

\* The requests that took an approval and have not answered yet.
Passing(k) ==
    {q \in Slots : checks[q].pc \in {"active", "result"} /\ checks[q].reason = "checked" /\ Key(q) = k}

\* A grant was answered, is on its way, or can still be used: never two of them.
GrantsCover(k) ==
    Copies(CheckedAnswer(k), answers) + Cardinality(Passing(k)) + (IF k \in DOMAIN approvals THEN 1 ELSE 0)
        <= Copies(GrantOf(k), stored)

InspectInv ==
    /\ InspectTypeInv /\ CheckedIsPast /\ ReceiptIsStored
    /\ \A k \in ApprovalKeys : GrantsCover(k)

LEMMA InspectInvInit == InspectInit => InspectInv
<1> SUFFICES ASSUME InspectInit PROVE InspectInv
    BY Zenon
<1>1. stored = EmptyBag /\ answers = EmptyBag /\ approvals = <<>> /\ checks = [q \in Slots |-> IdleCheck]
      /\ activeRuns = InspectRuns
      BY Zenon DEF InspectInit
<1>2. DOMAIN stored = {} /\ DOMAIN answers = {} /\ DOMAIN approvals = {}
      BY <1>1 DEF EmptyBag, SetToBag
<1>3. IsBag(stored) /\ IsBag(answers)
      BY <1>1, Zenon DEF EmptyBag, SetToBag, IsBag
<1>4. \A q \in Slots : checks[q] = IdleCheck /\ checks[q].pc = "idle"
      BY <1>1, Zenon DEF IdleCheck
<1>5. InspectTypeInv
      BY <1>1, <1>3, Zenon DEF InspectTypeInv
<1>6. CheckedIsPast /\ ReceiptIsStored
      BY <1>2, <1>4, Zenon DEF CheckedIsPast, ReceiptIsStored
<1>7. ASSUME NEW k \in ApprovalKeys PROVE GrantsCover(k)
  <2>1. Passing(k) = {}
        BY <1>4, Zenon DEF Passing
  <2>2. Cardinality(Passing(k)) = 0
        BY <2>1, FS_EmptySet, Zenon
  <2>3. Copies(CheckedAnswer(k), answers) = 0 /\ Copies(GrantOf(k), stored) = 0
        BY <1>2, Zenon DEF Copies, BagIn, BagToSet
  <2> QED
      BY <1>2, <2>2, <2>3 DEF GrantsCover
<1> QED
    BY <1>5, <1>6, <1>7, Zenon DEF InspectInv

LEMMA InspectNumbers ==
    ASSUME InspectInv, NEW k
    PROVE  /\ Copies(CheckedAnswer(k), answers) \in Nat /\ Copies(GrantOf(k), stored) \in Nat
           /\ IsFiniteSet(Passing(k)) /\ Cardinality(Passing(k)) \in Nat
<1>1. Passing(k) \subseteq Slots
      BY Zenon DEF Passing
<1>2. IsFiniteSet(Passing(k))
      BY <1>1, FS_Subset, InspectionAssumption, Zenon
<1>3. IsBag(answers) /\ IsBag(stored)
      BY Zenon DEF InspectInv, InspectTypeInv
<1> QED
    BY <1>2, <1>3, FS_CardinalityType, CopiesAreCounted, Zenon

\* What a step on one slot does to the requests that passed their approval.
LEMMA PassingAfter ==
    ASSUME InspectTypeInv, NEW q \in Slots, NEW c, checks' = [checks EXCEPT ![q] = c], NEW k
    PROVE  \A p : p \in Passing(k)' <=>
               \/ p # q /\ p \in Passing(k)
               \/ /\ p = q /\ c.pc \in {"active", "result"} /\ c.reason = "checked"
                  /\ approvalKey(c.run, c.body.route, c.body.digest) = k
<1>1. \A p \in Slots : checks'[p] = IF p = q THEN c ELSE checks[p]
      BY Zenon DEF InspectTypeInv
<1>2. ASSUME NEW p \in Slots, p # q PROVE p \in Passing(k)' <=> p \in Passing(k)
  <2>1. checks'[p] = checks[p]
        BY <1>1, <1>2, Zenon
  <2> QED
      BY <2>1, Zenon DEF Passing, Key
<1>3. q \in Passing(k)' <=> /\ c.pc \in {"active", "result"} /\ c.reason = "checked"
                            /\ approvalKey(c.run, c.body.route, c.body.digest) = k
  <2>1. checks'[q] = c
        BY <1>1, Zenon
  <2> QED
      BY <2>1, Zenon DEF Passing, Key
<1>4. \A p : p \in Passing(k) \/ p \in Passing(k)' => p \in Slots
      BY Zenon DEF Passing
<1> QED
    BY <1>2, <1>3, <1>4, Zenon

\* Receipts follow the database.
LEMMA ReceiptKeeps ==
    ASSUME InspectInv,
           stored' = stored \/ \E e : stored' = stored (+) SetToBag({e}),
           \/ answers' = answers
           \/ \E d : /\ answers' = answers (+) SetToBag({d})
                     /\ d.reason \in {"busy", "refused", "audit_unavailable"} \/ stored' = stored (+) SetToBag({d})
    PROVE  ReceiptIsStored' /\ IsBag(stored)' /\ IsBag(answers)'
<1>1. IsBag(answers) /\ IsBag(stored) /\ ReceiptIsStored
      BY Zenon DEF InspectInv, InspectTypeInv
<1>2. IsBag(stored)' /\ \A e : Copies(e, stored) <= Copies(e, stored')
  <2>1. CASE stored' = stored
    <3>1. \A e : Copies(e, stored) \in Nat
          BY <1>1, CopiesAreCounted, Zenon
    <3> QED
        BY <1>1, <2>1, <3>1
  <2>2. ASSUME NEW e, stored' = stored (+) SetToBag({e})
        PROVE  IsBag(stored)' /\ \A x : Copies(x, stored) <= Copies(x, stored')
        BY <1>1, <2>2, AddOne, Zenon DEF HasOneMore
  <2> QED
      BY <2>1, <2>2, Zenon
<1>3. ASSUME NEW e PROVE Copies(e, stored) \in Nat /\ Copies(e, stored') \in Nat
      BY <1>1, <1>2, CopiesAreCounted, Zenon
<1>4. CASE answers' = answers
  <2>1. ASSUME NEW d \in DOMAIN answers, d.reason \notin {"busy", "refused", "audit_unavailable"}
        PROVE  answers[d] <= Copies(d, stored')
    <3>1. answers[d] <= Copies(d, stored) /\ answers[d] \in Nat
          BY <1>1, <2>1, Zenon DEF ReceiptIsStored, IsBag
    <3> QED
        BY <1>2, <1>3, <3>1
  <2> QED
      BY <1>1, <1>2, <1>4, <2>1, Zenon DEF ReceiptIsStored
<1>5. ASSUME NEW d, answers' = answers (+) SetToBag({d}),
             d.reason \in {"busy", "refused", "audit_unavailable"} \/ stored' = stored (+) SetToBag({d})
      PROVE  ReceiptIsStored' /\ IsBag(answers)'
  <2>1. /\ IsBag(answers') /\ DOMAIN answers' = DOMAIN answers \cup {d}
        /\ Copies(d, answers') = Copies(d, answers) + 1
        /\ \A e : e # d => Copies(e, answers') = Copies(e, answers)
    <3>1. HasOneMore(answers, d, answers')
          BY <1>1, <1>5, AddOne, Zenon
    <3> QED
        BY <3>1, Zenon DEF HasOneMore
  <2>2. ASSUME NEW e PROVE /\ Copies(e, answers) \in Nat
                           /\ e \in DOMAIN answers' => answers'[e] = Copies(e, answers')
                           /\ e \in DOMAIN answers => answers[e] = Copies(e, answers)
                           /\ e \notin DOMAIN answers => Copies(e, answers) = 0
    <3>1. Copies(e, answers) \in Nat
          BY <1>1, CopiesAreCounted, Zenon
    <3> QED
        BY <3>1, Zenon DEF Copies, BagIn, BagToSet
  <2>3. ASSUME NEW e \in DOMAIN answers', e.reason \notin {"busy", "refused", "audit_unavailable"}
        PROVE  answers'[e] <= Copies(e, stored')
    <3>1. Copies(e, answers) <= Copies(e, stored)
      <4>1. CASE e \in DOMAIN answers
            BY <1>1, <2>2, <2>3, <4>1, Zenon DEF ReceiptIsStored
      <4>2. CASE e \notin DOMAIN answers
            BY <1>3, <2>2, <4>2
      <4> QED
          BY <4>1, <4>2, Zenon
    <3>2. CASE e # d
          BY <1>2, <1>3, <2>1, <2>2, <3>1, <3>2
    <3>3. CASE e = d
      <4>1. stored' = stored (+) SetToBag({d})
            BY <1>5, <2>3, <3>3, Zenon
      <4>2. Copies(d, stored') = Copies(d, stored) + 1
            BY <1>1, <4>1, AddOne, Zenon DEF HasOneMore
      <4> QED
          BY <1>3, <2>1, <2>2, <3>1, <3>3, <4>2
    <3> QED
        BY <3>2, <3>3, Zenon
  <2> QED
      BY <2>1, <2>3, Zenon DEF ReceiptIsStored
<1> QED
    BY <1>2, <1>4, <1>5, Zenon

\* An answer for another reason uses no grant.
LEMMA OtherAnswers ==
    ASSUME InspectInv, answers' = answers \/ \E d : answers' = answers (+) SetToBag({d}) /\ d.reason # "checked"
    PROVE  /\ \A k : Copies(CheckedAnswer(k), answers') = Copies(CheckedAnswer(k), answers)
           /\ \A e \in DOMAIN answers' : e.reason = "checked" => e \in DOMAIN answers
<1>1. CASE answers' = answers
      BY <1>1, Zenon
<1>2. ASSUME NEW d, answers' = answers (+) SetToBag({d}), d.reason # "checked"
      PROVE  /\ \A k : Copies(CheckedAnswer(k), answers') = Copies(CheckedAnswer(k), answers)
             /\ \A e \in DOMAIN answers' : e.reason = "checked" => e \in DOMAIN answers
  <2>1. IsBag(answers)
        BY Zenon DEF InspectInv, InspectTypeInv
  <2>2. DOMAIN answers' = DOMAIN answers \cup {d} /\ \A e : e # d => Copies(e, answers') = Copies(e, answers)
    <3>1. HasOneMore(answers, d, answers')
          BY <1>2, <2>1, AddOne, Zenon
    <3> QED
        BY <3>1, Zenon DEF HasOneMore
  <2>3. ASSUME NEW k PROVE CheckedAnswer(k) # d
    <3>1. CheckedAnswer(k).reason = "checked"
          BY Zenon DEF CheckedAnswer, Decision
    <3> QED
        BY <1>2, <3>1, Zenon
  <2> QED
      BY <1>2, <2>2, <2>3, Zenon
<1> QED
    BY <1>1, <1>2, Zenon

\* A step that lets nothing past its approval and changes no record of one.
LEMMA SlotMoves ==
    ASSUME InspectInv, NEW q \in Slots, NEW c \in CheckRecord \cup {IdleCheck},
           checks' = [checks EXCEPT ![q] = c],
           c.pc \in {"active", "result"} /\ c.reason = "checked" =>
               /\ checks[q].pc \in {"active", "result"} /\ checks[q].reason = "checked"
               /\ c.run = checks[q].run /\ c.body = checks[q].body,
           c.pc \in {"active", "result", "idle"} \/ c.reason # "checked",
           answers' = answers \/ \E d : answers' = answers (+) SetToBag({d}) /\ d.reason \in {"busy", "refused"},
           stored' = stored, approvals' = approvals, activeRuns' \in SUBSET InspectRuns
    PROVE  InspectInv'
<1>1. ReceiptIsStored' /\ IsBag(stored)' /\ IsBag(answers)'
      BY ReceiptKeeps, Zenon
<1>2. \A p \in Slots : checks'[p] = IF p = q THEN c ELSE checks[p]
      BY Zenon DEF InspectInv, InspectTypeInv
<1>3. InspectTypeInv'
      BY <1>1, Zenon DEF InspectInv, InspectTypeInv
<1>4. /\ \A k : Copies(CheckedAnswer(k), answers') = Copies(CheckedAnswer(k), answers)
      /\ \A e \in DOMAIN answers' : e.reason = "checked" => e \in DOMAIN answers
  <2>1. answers' = answers \/ \E d : answers' = answers (+) SetToBag({d}) /\ d.reason # "checked"
        BY Zenon
  <2> QED
      BY <2>1, OtherAnswers, Zenon
<1>5. CheckedIsPast'
  <2>1. \A p \in Slots : checks'[p].pc = "result" \/ checks'[p].pc = "active" \/ checks'[p].pc = "idle"
                         \/ checks'[p].reason # "checked"
        BY <1>2, Zenon DEF InspectInv, CheckedIsPast
  <2>2. \A d \in DOMAIN answers' : d.reason = "checked" => \E k \in ApprovalKeys : d = CheckedAnswer(k)
        BY <1>4, Zenon DEF InspectInv, CheckedIsPast
  <2> QED
      BY <2>1, <2>2, Zenon DEF CheckedIsPast
<1>6. ASSUME NEW k \in ApprovalKeys PROVE GrantsCover(k)'
  <2>1. Passing(k)' \subseteq Passing(k)
    <3>1. \A p : p \in Passing(k)' <=>
               \/ p # q /\ p \in Passing(k)
               \/ /\ p = q /\ c.pc \in {"active", "result"} /\ c.reason = "checked"
                  /\ approvalKey(c.run, c.body.route, c.body.digest) = k
      <4>1. InspectTypeInv
            BY Zenon DEF InspectInv
      <4> QED
          BY <4>1, PassingAfter, Zenon
    <3>2. ASSUME c.pc \in {"active", "result"}, c.reason = "checked",
                 approvalKey(c.run, c.body.route, c.body.digest) = k
          PROVE  q \in Passing(k)
          BY <3>2, Zenon DEF Passing, Key
    <3> QED
        BY <3>1, <3>2, Zenon
  <2>2. Cardinality(Passing(k)') <= Cardinality(Passing(k)) /\ Cardinality(Passing(k)') \in Nat
    <3>1. IsFiniteSet(Passing(k))
          BY InspectNumbers, Zenon
    <3> QED
        BY <2>1, <3>1, FS_Subset, FS_CardinalityType, Zenon
  <2>3. /\ Copies(CheckedAnswer(k), answers) \in Nat /\ Copies(GrantOf(k), stored) \in Nat
        /\ Cardinality(Passing(k)) \in Nat
        BY InspectNumbers, Zenon
  <2>4. GrantsCover(k)
        BY Zenon DEF InspectInv
  <2>5. PICK a, b, n, m, g, h : /\ a = Copies(CheckedAnswer(k), answers) /\ b = Copies(CheckedAnswer(k), answers')
                                /\ n = Cardinality(Passing(k)) /\ m = Cardinality(Passing(k)')
                                /\ g = Copies(GrantOf(k), stored) /\ h = IF k \in DOMAIN approvals THEN 1 ELSE 0
        BY Zenon
  <2>6. a + n + h <= g
        BY <2>4, <2>5, Zenon DEF GrantsCover
  <2>7. b + m + h <= g
        BY <1>4, <2>2, <2>3, <2>5, <2>6
  <2> QED
      BY <2>5, <2>7, Zenon DEF GrantsCover
<1> QED
    BY <1>1, <1>3, <1>5, <1>6, Zenon DEF InspectInv

\* A step that moves no request.
LEMMA OtherSteps ==
    ASSUME InspectInv, checks' = checks, stored' = stored, approvals' = approvals, activeRuns' \in SUBSET InspectRuns,
           answers' = answers \/ \E d : answers' = answers (+) SetToBag({d}) /\ d.reason \in {"busy", "refused"}
    PROVE  InspectInv'
<1>1. PICK q : q \in Slots
      BY InspectionAssumption, Zenon
<1>2. PICK c : c = checks[q]
      BY Zenon
<1>3. checks' = [checks EXCEPT ![q] = c] /\ c \in CheckRecord \cup {IdleCheck}
      BY <1>1, <1>2, Zenon DEF InspectInv, InspectTypeInv
<1>4. c.pc \in {"active", "result", "idle"} \/ c.reason # "checked"
      BY <1>1, <1>2, Zenon DEF InspectInv, CheckedIsPast
<1> QED
    BY <1>1, <1>2, <1>3, <1>4, SlotMoves, Zenon

\* The reasons a body is refused for.
LEMMA ContentReasons ==
    ASSUME NEW body \in InspectBodies, NEW verdict \in CheckContent(body)
    PROVE  verdict \in Reasons /\ verdict # "checked"
<1>1. ASSUME NEW v \in checkMCP(body)
      PROVE  v \in {"definition_changed", "tool_denied", "argument_required", "ok", "argument_denied",
                    "argument_out_of_range"}
  <2>1. CASE ~pinned
        BY <1>1, <2>1, Zenon DEF checkMCP
  <2>2. CASE pinned /\ body.tool \notin DOMAIN ToolPolicy
        BY <1>1, <2>2, Zenon DEF checkMCP
  <2>3. CASE pinned /\ body.tool \in DOMAIN ToolPolicy
    <3> DEFINE tool == ToolPolicy[body.tool]
               denied == DOMAIN body.arguments \ DOMAIN tool.arguments
               beyond == {k \in DOMAIN body.arguments \ denied : body.arguments[k] \notin tool.arguments[k]}
    <3>1. checkMCP(body) =
              CASE ~(tool.required \subseteq DOMAIN body.arguments) -> {"argument_required"}
                [] tool.required \subseteq DOMAIN body.arguments /\ denied \cup beyond = {} -> {"ok"}
                [] OTHER -> {"argument_denied" : k \in denied} \cup {"argument_out_of_range" : k \in beyond}
          BY <2>3, Zenon DEF checkMCP
    <3> HIDE DEF tool, denied, beyond
    <3>2. CASE ~(tool.required \subseteq DOMAIN body.arguments)
          BY <1>1, <3>1, <3>2, Zenon
    <3>3. CASE tool.required \subseteq DOMAIN body.arguments /\ denied \cup beyond = {}
          BY <1>1, <3>1, <3>3, Zenon
    <3>4. CASE tool.required \subseteq DOMAIN body.arguments /\ denied \cup beyond # {}
      <4>1. checkMCP(body) = {"argument_denied" : k \in denied} \cup {"argument_out_of_range" : k \in beyond}
            BY <3>1, <3>4, Zenon
      <4> QED
          BY <1>1, <4>1, Zenon
    <3> QED
        BY <3>2, <3>3, <3>4, Zenon
  <2> QED
      BY <2>1, <2>2, <2>3, Zenon
<1>2. body.form \in {"json", "unsupported_content", "body_limit", "invalid_json"}
      BY InspectionAssumption, Zenon
<1>3. \/ verdict \in checkMCP(body)
      \/ verdict = body.form
      \/ verdict \in {"sensitive_data", "ok"}
      BY Zenon DEF CheckContent
<1>4. verdict \in {"definition_changed", "tool_denied", "argument_required", "ok", "argument_denied",
                   "argument_out_of_range", "json", "unsupported_content", "body_limit", "invalid_json",
                   "sensitive_data"}
      BY <1>1, <1>2, <1>3, Zenon
<1>5. verdict # "checked"
      BY <1>4, Zenon
<1>6. verdict \in Reasons
      BY <1>4, Zenon DEF Reasons
<1> QED
    BY <1>5, <1>6, Zenon

\* The arithmetic of a grant that is taken, answered or added.
LEMMA GrantsAfter ==
    ASSUME InspectInv, NEW k \in ApprovalKeys, NEW a \in Nat, NEW n \in Nat, NEW g \in Nat,
           Copies(CheckedAnswer(k), answers') = a, Cardinality(Passing(k)') = n, Copies(GrantOf(k), stored') = g,
           a + n + (IF k \in DOMAIN approvals' THEN 1 ELSE 0) - g
               <= Copies(CheckedAnswer(k), answers) + Cardinality(Passing(k))
                      + (IF k \in DOMAIN approvals THEN 1 ELSE 0) - Copies(GrantOf(k), stored)
    PROVE  GrantsCover(k)'
<1>1. PICK a0, n0, g0, h0, h :
          /\ a0 = Copies(CheckedAnswer(k), answers) /\ n0 = Cardinality(Passing(k))
          /\ g0 = Copies(GrantOf(k), stored)
          /\ h0 = (IF k \in DOMAIN approvals THEN 1 ELSE 0) /\ h = (IF k \in DOMAIN approvals' THEN 1 ELSE 0)
      BY Zenon
<1>2. a0 \in Nat /\ n0 \in Nat /\ g0 \in Nat
      BY <1>1, InspectNumbers, Zenon
<1>3. h0 \in Nat /\ h \in Nat
      BY <1>1, Zenon
<1>4. a0 + n0 + h0 <= g0
  <2>1. GrantsCover(k)
        BY Zenon DEF InspectInv
  <2> QED
      BY <1>1, <2>1, Zenon DEF GrantsCover
<1>5. a + n + h - g <= a0 + n0 + h0 - g0
      BY <1>1, Zenon
<1>6. a + n + h <= g
      BY <1>2, <1>3, <1>4, <1>5
<1> QED
    BY <1>1, <1>6, Zenon DEF GrantsCover

\* A record keeps its Run and its body when its stage and reason change.
MovedTo(c, p, w) == [c EXCEPT !.pc = p, !.reason = w]

LEMMA RecordMoves ==
    ASSUME NEW c \in CheckRecord, NEW p \in Stages, NEW w \in Reasons
    PROVE  /\ MovedTo(c, p, w) \in CheckRecord
           /\ MovedTo(c, p, w).pc = p /\ MovedTo(c, p, w).reason = w
           /\ MovedTo(c, p, w).run = c.run /\ MovedTo(c, p, w).body = c.body
<1>1. DOMAIN c = {"pc", "run", "body", "reason"}
      BY Zenon DEF CheckRecord
<1>2. /\ MovedTo(c, p, w).pc = p /\ MovedTo(c, p, w).reason = w
      /\ MovedTo(c, p, w).run = c.run /\ MovedTo(c, p, w).body = c.body
      BY <1>1, Zenon DEF MovedTo
<1>3. MovedTo(c, p, w) \in CheckRecord
      BY Zenon DEF CheckRecord, MovedTo
<1> QED
    BY <1>2, <1>3, Zenon

\* A slot in use holds a record.
LEMMA SlotInUse ==
    ASSUME InspectInv, NEW q \in Slots, checks[q].pc # "idle"
    PROVE  /\ checks[q] \in CheckRecord /\ checks[q].run \in InspectRuns /\ checks[q].body \in InspectBodies
           /\ checks[q].reason \in Reasons /\ Key(q) \in ApprovalKeys
<1>1. checks[q] \in CheckRecord \cup {IdleCheck}
      BY Zenon DEF InspectInv, InspectTypeInv
<1>2. checks[q] \in CheckRecord
  <2>1. IdleCheck.pc = "idle"
        BY Zenon DEF IdleCheck
  <2> QED
      BY <1>1, <2>1, Zenon
<1>3. checks[q].run \in InspectRuns /\ checks[q].body \in InspectBodies /\ checks[q].reason \in Reasons
      BY <1>2, Zenon DEF CheckRecord
<1>4. \A r \in InspectRuns, b \in InspectBodies : approvalKey(r, b.route, b.digest) \in ApprovalKeys
      BY DEF ApprovalKeys
<1> QED
    BY <1>2, <1>3, <1>4, Zenon DEF Key

\* Everything but the approvals, the answers and the results.
LEMMA StepBeforeApproval ==
    ASSUME InspectInv, NEW q \in Slots, reserveBudget(q) \/ InspectBody(q) \/ CheckActive(q)
    PROVE  InspectInv'
<1>0. checks[q].pc # "idle"
      BY Zenon DEF reserveBudget, InspectBody, CheckActive
<1>1. /\ checks[q] \in CheckRecord /\ checks[q].run \in InspectRuns /\ checks[q].body \in InspectBodies
      /\ checks[q].reason \in Reasons
      BY <1>0, SlotInUse, Zenon
<1>2. IdleCheck.pc = "idle"
      BY Zenon DEF IdleCheck
<1>3. CASE reserveBudget(q)
  <2>1. stored' = stored /\ approvals' = approvals /\ activeRuns' = activeRuns
        BY <1>3, Zenon DEF reserveBudget
  <2>2. CASE /\ checks' = [checks EXCEPT ![q] = IdleCheck]
             /\ answers' = answers (+) SetToBag({Decision(checks[q].run, checks[q].body.route, "", "refused")})
    <3>1. Decision(checks[q].run, checks[q].body.route, "", "refused").reason = "refused"
          BY Zenon DEF Decision
    <3>2. \E d : answers' = answers (+) SetToBag({d}) /\ d.reason \in {"busy", "refused"}
          BY <2>2, <3>1, Zenon
    <3>3. activeRuns' \in SUBSET InspectRuns
          BY <2>1, Zenon DEF InspectInv, InspectTypeInv
    <3>4. IdleCheck \in CheckRecord \cup {IdleCheck} /\ ~(IdleCheck.pc \in {"active", "result"})
          /\ IdleCheck.pc \in {"active", "result", "idle"}
          BY <1>2, Zenon
    <3> HIDE <1>0
    <3> QED
        BY <2>1, <2>2, <3>2, <3>3, <3>4, SlotMoves, Zenon
  <2>3. ASSUME NEW p \in Stages,
               checks' = [checks EXCEPT ![q].pc = p, ![q].reason = "request_budget"], answers' = answers
        PROVE  InspectInv'
    <3>1. PICK c : c = MovedTo(checks[q], p, "request_budget")
          BY Zenon
    <3>2. c \in CheckRecord /\ c.reason # "checked"
      <4>1. "request_budget" \in Reasons
            BY Zenon DEF Reasons
      <4>2. c \in CheckRecord /\ c.reason = "request_budget"
            BY <1>1, <2>3, <3>1, <4>1, RecordMoves, Zenon
      <4> QED
          BY <4>2, Zenon
    <3>3. checks' = [checks EXCEPT ![q] = c]
          BY <2>3, <3>1, Zenon DEF MovedTo
    <3>4. activeRuns' \in SUBSET InspectRuns
          BY <2>1, Zenon DEF InspectInv, InspectTypeInv
    <3> QED
        BY <2>1, <2>3, <3>2, <3>3, <3>4, SlotMoves, Zenon
  <2> QED
    <3>1. "result" \in Stages /\ "content" \in Stages
          BY Zenon DEF Stages
    <3> QED
        BY <1>3, <2>2, <2>3, <3>1, Zenon DEF reserveBudget
<1>4. CASE InspectBody(q)
  <2>1. PICK verdict \in CheckContent(checks[q].body) :
            checks' = [checks EXCEPT ![q].pc = IF verdict = "ok" THEN "approval" ELSE "result", ![q].reason = verdict]
        BY <1>4, Zenon DEF InspectBody
  <2>2. verdict \in Reasons /\ verdict # "checked"
        BY <1>1, ContentReasons, Zenon
  <2>3. PICK p \in {"approval", "result"} : p = IF verdict = "ok" THEN "approval" ELSE "result"
        BY Zenon
  <2>4. PICK c : c = MovedTo(checks[q], p, verdict)
        BY Zenon
  <2>5. c \in CheckRecord /\ c.reason # "checked"
    <3>1. p \in Stages
          BY <2>3, Zenon DEF Stages
    <3>2. c \in CheckRecord /\ c.reason = verdict
          BY <1>1, <2>2, <2>4, <3>1, RecordMoves, Zenon
    <3> QED
        BY <2>2, <3>2, Zenon
  <2>6. checks' = [checks EXCEPT ![q] = c]
        BY <2>1, <2>3, <2>4, Zenon DEF MovedTo
  <2>7. stored' = stored /\ approvals' = approvals /\ answers' = answers /\ activeRuns' \in SUBSET InspectRuns
        BY <1>4, Zenon DEF InspectBody, InspectInv, InspectTypeInv
  <2> QED
      BY <2>5, <2>6, <2>7, SlotMoves, Zenon
<1>5. CASE CheckActive(q)
  <2>1. PICK w \in Reasons : w = IF checks[q].run \in activeRuns THEN checks[q].reason ELSE "inactive_run"
    <3>1. "inactive_run" \in Reasons
          BY Zenon DEF Reasons
    <3> QED
        BY <1>1, <3>1, Zenon
  <2>2. PICK c : c = MovedTo(checks[q], "result", w)
        BY Zenon
  <2>3. c \in CheckRecord /\ c.pc = "result" /\ c.reason = w /\ c.run = checks[q].run /\ c.body = checks[q].body
    <3>1. "result" \in Stages
          BY Zenon DEF Stages
    <3>2. checks[q] \in CheckRecord /\ w \in Reasons /\ c = MovedTo(checks[q], "result", w)
          BY <1>1, <2>1, <2>2, Zenon
    <3> HIDE <1>1, <2>1, <2>2
    <3> QED
        BY <3>1, <3>2, RecordMoves
  <2>4. checks' = [checks EXCEPT ![q] = c]
        BY <1>5, <2>1, <2>2, Zenon DEF CheckActive, MovedTo
  <2>5. stored' = stored /\ approvals' = approvals /\ answers' = answers /\ activeRuns' \in SUBSET InspectRuns
        BY <1>5, Zenon DEF CheckActive, InspectInv, InspectTypeInv
  <2>6. c.reason = "checked" => checks[q].reason = "checked"
        BY <2>1, <2>3, Zenon
  <2>7. checks[q].pc = "active"
        BY <1>5, Zenon DEF CheckActive
  <2> QED
      BY <2>3, <2>4, <2>5, <2>6, <2>7, SlotMoves, Zenon
<1> QED
    BY <1>3, <1>4, <1>5, Zenon

\* ConsumeApproval moves a grant from the table to its request.
LEMMA StepOfConsume ==
    ASSUME InspectInv, NEW q \in Slots, ConsumeApproval(q)
    PROVE  InspectInv'
<1>1. checks[q].pc = "approval" /\ stored' = stored /\ answers' = answers /\ activeRuns' = activeRuns
      BY Zenon DEF ConsumeApproval
<1>2. checks[q] \in CheckRecord /\ Key(q) \in ApprovalKeys
      BY <1>1, SlotInUse, Zenon
<1>3. PICK w \in Reasons : w = IF Approved(q) THEN "checked" ELSE "approval_required"
  <2>1. "checked" \in Reasons /\ "approval_required" \in Reasons
        BY Zenon DEF Reasons
  <2> QED
      BY <2>1, Zenon
<1>4. PICK c : c = MovedTo(checks[q], "active", w)
      BY Zenon
<1>5. c \in CheckRecord /\ c.pc = "active" /\ c.reason = w /\ c.run = checks[q].run /\ c.body = checks[q].body
  <2>1. "active" \in Stages
        BY Zenon DEF Stages
  <2>2. checks[q] \in CheckRecord /\ w \in Reasons /\ c = MovedTo(checks[q], "active", w)
        BY <1>2, <1>3, <1>4, Zenon
  <2> HIDE <1>1, <1>2, <1>3, <1>4
  <2> QED
      BY <2>1, <2>2, RecordMoves
<1>6. checks' = [checks EXCEPT ![q] = c]
      BY <1>3, <1>4, Zenon DEF ConsumeApproval, MovedTo
<1>7. DOMAIN approvals' = DOMAIN approvals \ {Key(q)}
      BY Zenon DEF ConsumeApproval
<1>8. ReceiptIsStored' /\ IsBag(stored)' /\ IsBag(answers)'
      BY <1>1, ReceiptKeeps, Zenon
<1>9. InspectTypeInv'
      BY <1>1, <1>5, <1>6, <1>8, Zenon DEF InspectInv, InspectTypeInv
<1>10. \A p \in Slots : checks'[p] = IF p = q THEN c ELSE checks[p]
       BY <1>6, Zenon DEF InspectInv, InspectTypeInv
<1>11. CheckedIsPast'
       BY <1>1, <1>5, <1>10, Zenon DEF InspectInv, CheckedIsPast
<1>12. ASSUME NEW k \in ApprovalKeys PROVE GrantsCover(k)'
  <2>1. q \notin Passing(k)
        BY <1>1, Zenon DEF Passing
  <2>2. /\ Copies(CheckedAnswer(k), answers) \in Nat /\ Copies(GrantOf(k), stored) \in Nat
        /\ IsFiniteSet(Passing(k)) /\ Cardinality(Passing(k)) \in Nat
        BY InspectNumbers, Zenon
  <2>3. \A p : p \in Passing(k)' <=>
               \/ p # q /\ p \in Passing(k)
               \/ /\ p = q /\ c.pc \in {"active", "result"} /\ c.reason = "checked"
                  /\ approvalKey(c.run, c.body.route, c.body.digest) = k
    <3>1. InspectTypeInv
          BY Zenon DEF InspectInv
    <3> QED
        BY <1>6, <3>1, PassingAfter, Zenon
  <2>4. CASE w = "checked" /\ Key(q) = k
    <3>1. Passing(k)' = Passing(k) \cup {q}
          BY <1>5, <2>1, <2>3, <2>4, Zenon DEF Key
    <3>2. Cardinality(Passing(k)') = Cardinality(Passing(k)) + 1
          BY <2>1, <2>2, <3>1, FS_AddElement, Zenon
    <3>3. k \in DOMAIN approvals /\ k \notin DOMAIN approvals'
          BY <1>3, <1>7, <2>4, Zenon DEF Approved
    <3> QED
        BY <1>1, <2>2, <3>2, <3>3, GrantsAfter
  <2>5. CASE ~(w = "checked" /\ Key(q) = k)
    <3>1. Passing(k)' = Passing(k)
          BY <1>5, <2>1, <2>3, <2>5, Zenon DEF Key
    <3>2. k \in DOMAIN approvals' => k \in DOMAIN approvals
          BY <1>7, Zenon
    <3> QED
        BY <1>1, <2>2, <3>1, <3>2, GrantsAfter
  <2> QED
      BY <2>4, <2>5, Zenon
<1> QED
    BY <1>8, <1>9, <1>11, <1>12, Zenon DEF InspectInv

\* A result answers a passing request with what it stored.
LEMMA StepOfResult ==
    ASSUME InspectInv, NEW q \in Slots, NEW ok \in BOOLEAN, result(q, ok)
    PROVE  InspectInv'
<1>1. /\ checks[q].pc = "result" /\ checks' = [checks EXCEPT ![q] = IdleCheck]
      /\ activeRuns' = activeRuns /\ approvals' = approvals
      BY Zenon DEF result
<1>2. checks[q] \in CheckRecord /\ Key(q) \in ApprovalKeys
      BY <1>1, SlotInUse, Zenon
<1>3. PICK d : d = CheckAnswer(q)
      BY Zenon
<1>4. d.reason = checks[q].reason /\ (d.reason = "checked" => d = CheckedAnswer(Key(q)))
      BY <1>3, Zenon DEF CheckAnswer, Decision, CheckedAnswer, Key, approvalKey
<1>5. PICK e : e = IF ok THEN d ELSE [d EXCEPT !.reason = "audit_unavailable"]
      BY Zenon
<1>6. /\ answers' = answers (+) SetToBag({e})
      /\ stored' = stored (+) SetToBag({d}) \/ (~ok /\ stored' = stored)
      BY <1>3, <1>5, Zenon DEF result, Audited
<1>7. (ok /\ e = d) \/ e.reason = "audit_unavailable"
      BY <1>3, <1>5, Zenon DEF CheckAnswer, Decision
<1>8. ReceiptIsStored' /\ IsBag(stored)' /\ IsBag(answers)'
  <2>1. stored' = stored \/ \E x : stored' = stored (+) SetToBag({x})
        BY <1>6, Zenon
  <2>2. e.reason \in {"busy", "refused", "audit_unavailable"} \/ stored' = stored (+) SetToBag({e})
        BY <1>6, <1>7, Zenon
  <2> QED
      BY <1>6, <2>1, <2>2, ReceiptKeeps, Zenon
<1>9. InspectTypeInv'
      BY <1>1, <1>8, Zenon DEF InspectInv, InspectTypeInv
<1>10. \A p \in Slots : checks'[p] = IF p = q THEN IdleCheck ELSE checks[p]
       BY <1>1, Zenon DEF InspectInv, InspectTypeInv
<1>11. HasOneMore(answers, e, answers')
       BY <1>6, AddOne, Zenon DEF InspectInv, InspectTypeInv
<1>12. CheckedIsPast'
  <2>1. \A p \in Slots : checks'[p].pc = "result" \/ checks'[p].pc = "active" \/ checks'[p].pc = "idle"
                         \/ checks'[p].reason # "checked"
        BY <1>10 DEF InspectInv, CheckedIsPast, IdleCheck
  <2>2. e.reason = "checked" => e = CheckedAnswer(Key(q))
        BY <1>4, <1>7, Zenon
  <2>3. DOMAIN answers' = DOMAIN answers \cup {e}
        BY <1>11, Zenon DEF HasOneMore
  <2>4. \A x \in DOMAIN answers' : x.reason = "checked" => \E k \in ApprovalKeys : x = CheckedAnswer(k)
        BY <1>2, <2>2, <2>3, Zenon DEF InspectInv, CheckedIsPast
  <2> QED
      BY <2>1, <2>4, Zenon DEF CheckedIsPast
<1>13. ASSUME NEW k \in ApprovalKeys PROVE GrantsCover(k)'
  <2>1. /\ Copies(CheckedAnswer(k), answers) \in Nat /\ Copies(GrantOf(k), stored) \in Nat
        /\ IsFiniteSet(Passing(k)) /\ Cardinality(Passing(k)) \in Nat
        BY InspectNumbers, Zenon
  <2>2. Passing(k)' = Passing(k) \ {q}
    <3>1. \A p : p \in Passing(k)' <=>
               \/ p # q /\ p \in Passing(k)
               \/ /\ p = q /\ IdleCheck.pc \in {"active", "result"} /\ IdleCheck.reason = "checked"
                  /\ approvalKey(IdleCheck.run, IdleCheck.body.route, IdleCheck.body.digest) = k
      <4>1. InspectTypeInv
            BY Zenon DEF InspectInv
      <4> QED
          BY <1>1, <4>1, PassingAfter, Zenon
    <3>2. ~(IdleCheck.pc \in {"active", "result"})
          BY Zenon DEF IdleCheck
    <3> QED
        BY <3>1, <3>2, Zenon
  <2>3. Copies(GrantOf(k), stored') \in Nat /\ Copies(GrantOf(k), stored) <= Copies(GrantOf(k), stored')
    <3>1. CASE stored' = stored
          BY <2>1, <3>1
    <3>2. CASE stored' = stored (+) SetToBag({d})
      <4>1. HasOneMore(stored, d, stored')
            BY <3>2, AddOne, Zenon DEF InspectInv, InspectTypeInv
      <4> QED
          BY <1>8, <4>1, CopiesAreCounted, Zenon DEF HasOneMore
    <3> QED
        BY <1>6, <3>1, <3>2, Zenon
  <2>4. Copies(CheckedAnswer(k), answers') \in Nat
        BY <1>8, CopiesAreCounted, Zenon
  <2>5. CASE e = CheckedAnswer(k)
    <3>1. e.reason = "checked"
          BY <2>5, Zenon DEF CheckedAnswer, Decision
    <3>2. checks[q].reason = "checked" /\ e = CheckedAnswer(Key(q))
          BY <1>4, <1>7, <3>1, Zenon
    <3>3. k = Key(q)
      <4>1. PICK run \in InspectRuns, body \in InspectBodies : k = approvalKey(run, body.route, body.digest)
            BY DEF ApprovalKeys
      <4> QED
          BY <2>5, <3>2, <4>1 DEF CheckedAnswer, Decision, Key, approvalKey
    <3>4. q \in Passing(k)
          BY <1>1, <3>2, <3>3, Zenon DEF Passing
    <3>5. Cardinality(Passing(k)') = Cardinality(Passing(k)) - 1 /\ Cardinality(Passing(k)') \in Nat
          BY <2>1, <2>2, <3>4, FS_RemoveElement, FS_CardinalityType, Zenon
    <3>6. Copies(CheckedAnswer(k), answers') = Copies(CheckedAnswer(k), answers) + 1
          BY <1>11, <2>5, Zenon DEF HasOneMore
    <3> QED
        BY <1>1, <2>1, <2>3, <2>4, <3>5, <3>6, GrantsAfter
  <2>6. CASE e # CheckedAnswer(k)
    <3>1. Copies(CheckedAnswer(k), answers') = Copies(CheckedAnswer(k), answers)
          BY <1>11, <2>6, Zenon DEF HasOneMore
    <3>2. Cardinality(Passing(k)') <= Cardinality(Passing(k)) /\ Cardinality(Passing(k)') \in Nat
      <4>1. Passing(k)' \subseteq Passing(k)
            BY <2>2, Zenon
      <4> QED
          BY <2>1, <4>1, FS_Subset, FS_CardinalityType, Zenon
    <3> QED
        BY <1>1, <2>1, <2>3, <3>1, <3>2, GrantsAfter
  <2> QED
      BY <2>5, <2>6, Zenon
<1> QED
    BY <1>8, <1>9, <1>12, <1>13, Zenon DEF InspectInv

\* Approve adds an approval only with the grant it has stored.
LEMMA StepOfApprove ==
    ASSUME InspectInv, NEW ok \in BOOLEAN, Approve(ok)
    PROVE  InspectInv'
<1>1. checks' = checks /\ answers' = answers /\ activeRuns' = activeRuns
      BY Zenon DEF Approve
<1>2. PICK key : key = granting.key
      BY Zenon
<1>3. stored' = stored \/ stored' = stored (+) SetToBag({GrantOf(key)})
      BY <1>2, Zenon DEF Approve, Audited, GrantOf
<1>4. \A k \in DOMAIN approvals' :
          k \in DOMAIN approvals \/ (k = key /\ stored' = stored (+) SetToBag({GrantOf(key)}))
      BY <1>2, Zenon DEF Approve, Audited, GrantOf
<1>5. ReceiptIsStored' /\ IsBag(stored)' /\ IsBag(answers)'
      BY <1>1, <1>3, ReceiptKeeps, Zenon
<1>6. InspectTypeInv' /\ CheckedIsPast'
      BY <1>1, <1>5, Zenon DEF InspectInv, InspectTypeInv, CheckedIsPast
<1>7. ASSUME NEW k \in ApprovalKeys PROVE GrantsCover(k)'
  <2>1. /\ Copies(CheckedAnswer(k), answers) \in Nat /\ Copies(GrantOf(k), stored) \in Nat
        /\ Cardinality(Passing(k)) \in Nat
        BY InspectNumbers, Zenon
  <2>2. Passing(k)' = Passing(k)
        BY <1>1, Zenon DEF Passing, Key
  <2>3. CASE stored' = stored
    <3>1. k \in DOMAIN approvals' => k \in DOMAIN approvals
      <4>1. stored # stored (+) SetToBag({GrantOf(key)})
        <5>1. HasOneMore(stored, GrantOf(key), stored (+) SetToBag({GrantOf(key)}))
              BY AddOne, Zenon DEF InspectInv, InspectTypeInv
        <5>2. Copies(GrantOf(key), stored) \in Nat
              BY CopiesAreCounted, Zenon DEF InspectInv, InspectTypeInv
        <5>3. Copies(GrantOf(key), stored (+) SetToBag({GrantOf(key)})) # Copies(GrantOf(key), stored)
              BY <5>1, <5>2 DEF HasOneMore
        <5> QED
            BY <5>3, Zenon
      <4> QED
          BY <1>4, <2>3, <4>1, Zenon
    <3> QED
        BY <1>1, <2>1, <2>2, <2>3, <3>1, GrantsAfter
  <2>4. CASE stored' = stored (+) SetToBag({GrantOf(key)})
    <3>1. HasOneMore(stored, GrantOf(key), stored')
          BY <2>4, AddOne, Zenon DEF InspectInv, InspectTypeInv
    <3>2. Copies(GrantOf(k), stored') \in Nat
          BY <1>5, CopiesAreCounted, Zenon
    <3>3. CASE k = key
      <4>1. Copies(GrantOf(k), stored') = Copies(GrantOf(k), stored) + 1
            BY <3>1, <3>3, Zenon DEF HasOneMore
      <4> QED
          BY <1>1, <2>1, <2>2, <3>2, <4>1, GrantsAfter
    <3>4. CASE k # key
      <4>1. Copies(GrantOf(k), stored) <= Copies(GrantOf(k), stored')
            BY <3>1, Zenon DEF HasOneMore
      <4>2. k \in DOMAIN approvals' => k \in DOMAIN approvals
            BY <1>4, <3>4, Zenon
      <4> QED
          BY <1>1, <2>1, <2>2, <3>2, <4>1, <4>2, GrantsAfter
    <3> QED
        BY <3>3, <3>4, Zenon
  <2> QED
      BY <1>3, <2>3, <2>4, Zenon
<1> QED
    BY <1>5, <1>6, <1>7, Zenon DEF InspectInv

\* A request takes a free slot in its first stage, or is answered "busy".
LEMMA StepOfBegin ==
    ASSUME InspectInv, NEW run \in InspectRuns, NEW body \in InspectBodies, BeginCheck(run, body)
    PROVE  InspectInv'
<1>1. stored' = stored /\ approvals' = approvals /\ activeRuns' \in SUBSET InspectRuns
      BY Zenon DEF BeginCheck, InspectInv, InspectTypeInv
<1>2. PICK c : c = [pc |-> "budget", run |-> run, body |-> body, reason |-> ""]
      BY Zenon
<1>3. c \in CheckRecord /\ c.pc = "budget" /\ c.reason # "checked"
      BY <1>2, Zenon DEF CheckRecord, Stages, Reasons
<1>4. CASE {q \in Slots : checks[q].pc = "idle"} # {}
  <2>1. PICK q \in Slots : checks' = [checks EXCEPT ![q] = c]
        BY <1>2, <1>4, Zenon DEF BeginCheck
  <2>2. answers' = answers
        BY <1>4, Zenon DEF BeginCheck
  <2> QED
      BY <1>1, <1>3, <2>1, <2>2, SlotMoves, Zenon
<1>5. CASE {q \in Slots : checks[q].pc = "idle"} = {}
  <2>1. checks' = checks /\ answers' = answers (+) SetToBag({Decision(run, body.route, "", "busy")})
        BY <1>5, Zenon DEF BeginCheck
  <2>2. Decision(run, body.route, "", "busy").reason = "busy"
        BY Zenon DEF Decision
  <2>3. \E d : answers' = answers (+) SetToBag({d}) /\ d.reason \in {"busy", "refused"}
        BY <2>1, <2>2, Zenon
  <2> QED
      BY <1>1, <2>1, <2>3, OtherSteps, Zenon
<1> QED
    BY <1>4, <1>5, Zenon

LEMMA InspectInvStep == InspectInv /\ [InspectNext]_inspectVars => InspectInv'
<1> SUFFICES ASSUME InspectInv, [InspectNext]_inspectVars PROVE InspectInv'
    BY Zenon
<1>0. activeRuns \in SUBSET InspectRuns
      BY Zenon DEF InspectInv, InspectTypeInv
<1>1. ASSUME NEW q \in Slots, CheckStep(q) PROVE InspectInv'
      BY <1>1, StepBeforeApproval, StepOfConsume, StepOfResult, Zenon DEF CheckStep
<1>2. ASSUME NEW run \in InspectRuns, NEW body \in InspectBodies, BeginCheck(run, body) PROVE InspectInv'
      BY <1>2, StepOfBegin, Zenon
<1>3. ASSUME NEW run, NEW route, NEW digest, NEW ttl, BeginApprove(run, route, digest, ttl) PROVE InspectInv'
  <2>1. /\ checks' = checks /\ stored' = stored /\ approvals' = approvals /\ activeRuns' = activeRuns
        /\ answers' = answers
        BY <1>3, Zenon DEF BeginApprove
  <2> QED
      BY <1>0, <2>1, OtherSteps, Zenon
<1>4. ASSUME NEW ok \in BOOLEAN, Approve(ok) PROVE InspectInv'
      BY <1>4, StepOfApprove, Zenon
<1>5. ASSUME NEW run, RunEnds(run) PROVE InspectInv'
  <2>1. checks' = checks /\ stored' = stored /\ approvals' = approvals /\ answers' = answers
        BY <1>5, Zenon DEF RunEnds
  <2>2. activeRuns' \in SUBSET InspectRuns
        BY <1>0, <1>5, Zenon DEF RunEnds
  <2> QED
      BY <2>1, <2>2, OtherSteps, Zenon
<1>6. CASE DefinitionChanges \/ InspectionClock \/ UNCHANGED inspectVars
  <2>1. /\ checks' = checks /\ stored' = stored /\ approvals' = approvals /\ activeRuns' = activeRuns
        /\ answers' = answers
        BY <1>6, Zenon DEF DefinitionChanges, InspectionClock, inspectVars
  <2> QED
      BY <1>0, <2>1, OtherSteps, Zenon
<1> QED
    BY <1>1, <1>2, <1>3, <1>4, <1>5, <1>6, Zenon DEF InspectNext

LEMMA InspectInvariance == InspectSpec => []InspectInv
BY InspectInvInit, InspectInvStep, PTL DEF InspectSpec

\* Whatever requests, grants and ends of Runs interleave, and however often the
\* audit fails, no receipt is given for a decision that is not stored.
THEOREM ReceiptsAreStored == InspectSpec => []ReceiptIsStored
<1>1. InspectInv => ReceiptIsStored
      BY Zenon DEF InspectInv
<1> QED
    BY <1>1, InspectInvariance, PTL

\* A grant admits one request: the requests answered "checked" for a body never
\* outnumber the grants stored for it.
THEOREM ApprovalsAreUsedOnce == InspectSpec => []ApprovalUsedOnce
<1>1. ASSUME InspectInv PROVE ApprovalUsedOnce
  <2>1. ASSUME NEW d \in DOMAIN answers, d.reason = "checked"
        PROVE  answers[d] <= Copies([d EXCEPT !.reason = "approval_granted"], stored)
    <3>1. PICK k \in ApprovalKeys : d = CheckedAnswer(k)
          BY <1>1, <2>1, Zenon DEF InspectInv, CheckedIsPast
    <3>2. [d EXCEPT !.reason = "approval_granted"] = GrantOf(k)
          BY <3>1 DEF CheckedAnswer, GrantOf, Decision
    <3>3. /\ Copies(CheckedAnswer(k), answers) \in Nat /\ Copies(GrantOf(k), stored) \in Nat
          /\ Cardinality(Passing(k)) \in Nat
          BY <1>1, InspectNumbers, Zenon
    <3>4. Copies(CheckedAnswer(k), answers) <= Copies(GrantOf(k), stored)
      <4>1. PICK a, n, g, h : /\ a = Copies(CheckedAnswer(k), answers) /\ n = Cardinality(Passing(k))
                              /\ g = Copies(GrantOf(k), stored) /\ h = IF k \in DOMAIN approvals THEN 1 ELSE 0
            BY Zenon
      <4>2. a + n + h <= g
        <5>1. GrantsCover(k)
              BY <1>1, Zenon DEF InspectInv
        <5> QED
            BY <4>1, <5>1, Zenon DEF GrantsCover
      <4> QED
          BY <3>3, <4>1, <4>2
    <3>5. answers[d] = Copies(CheckedAnswer(k), answers)
          BY <2>1, <3>1, Zenon DEF Copies, BagIn, BagToSet
    <3> QED
        BY <3>2, <3>4, <3>5, Zenon
  <2> QED
      BY <2>1, Zenon DEF ApprovalUsedOnce
<1> QED
    BY <1>1, InspectInvariance, PTL
=============================================================================
