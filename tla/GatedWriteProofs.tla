--------------------------- MODULE GatedWriteProofs ---------------------------
(***************************************************************************)
(* What the gated write path guarantees for all tenants, instances,        *)
(* requests and metadata, any number of calls and any time-to-live.        *)
(***************************************************************************)
EXTENDS GatedWrite, TLAPS

\* A call that has not been looked at has left no trace.
IdleIsBlank ==
    \A c \in Call : pc[c] = "idle" =>
        spent[c] = {} /\ saw[c] = {} /\ wire[c] = "none" /\ audited[c] = "none"

\* Metadata is only ever judged by validations, and ends them.
SawIsValidation ==
    \A c \in Call : \A md \in saw[c] : req[c].tool = "validate" /\ pc[c] = "done"

MetadataIsValidation ==
    \A c \in Call : pc[c] = "metadata" =>
        req[c].tool = "validate" /\ saw[c] = {} /\ spent[c] = {} /\ wire[c] = "none"

\* The call v registered the entry e for what it had validated.
Genuine(e) ==
    /\ e.payload = PayloadOf(req[e.by])
    /\ \E md \in saw[e.by] : ~HardFail(PayloadOf(req[e.by]), md)

StoreGenuine == \A e \in store : Genuine(e)
OneEntryPerCall == \A e, f \in store : e.by = f.by => e = f
SpentGenuine == \A c \in Call : \A e \in spent[c] : Genuine(e) /\ e.payload = req[c].payload

\* No registration is both redeemable and spent, or spent by two calls.
SpentApart ==
    \A c \in Call : \A e \in spent[c] :
        /\ \A f \in store : f.by # e.by
        /\ \A d \in Call : \A f \in spent[d] : f.by = e.by => d = c

\* A call on its way to SAP, or through, has consumed an approval and passed
\* every check.
Cleared(c) ==
    /\ spent[c] # {} /\ req[c].tool # "validate"
    /\ Admitted(req[c]) /\ Executable(req[c]) /\ PresentsRight(req[c])

InFlightCleared ==
    \A c \in Call :
        /\ pc[c] \in {"keys", "write", "reply"} \/ wire[c] # "none" => Cleared(c)
        /\ pc[c] \in {"write", "reply"} \/ wire[c] # "none" =>
              (req[c].payload.op # "create" => req[c].payload.keys = "good")

\* Nothing has been sent for a call that has yet to send.
UnsentYet == \A c \in Call : pc[c] \in {"keys", "write"} => wire[c] = "none"

IInv ==
    /\ TypeOK
    /\ IdleIsBlank /\ SawIsValidation /\ MetadataIsValidation
    /\ StoreGenuine /\ OneEntryPerCall /\ SpentGenuine /\ SpentApart
    /\ InFlightCleared /\ UnsentYet /\ AuditTellsTruth
-----------------------------------------------------------------------------
\* The payload a request stands for is a payload.
LEMMA PayloadType ==
  ASSUME NEW r \in Requests
  PROVE  PayloadOf(r) \in Payload /\ TokenOf(PayloadOf(r)) \in Payload
  <1>1. r \in Request /\ DefaultInstance \in Instance
    BY ConstantsAssumption
  <1>2. Resolved(r) \in Instance
    BY <1>1 DEF Resolved, Request
  <1>3. Fp[r.cred] \in {Fp[k] : k \in Cred}
    BY <1>1 DEF Request
  <1>4. r.payload \in Payload
    BY <1>1 DEF Request
  <1>5. PayloadOf(r) \in Payload
    BY <1>2, <1>3, <1>4 DEF PayloadOf, Payload
  <1>6. TokenOf(PayloadOf(r)) \in Payload
    BY <1>5 DEF TokenOf, Canonical, Payload, NumberForm
  <1> QED
    BY <1>5, <1>6

\* A request that presents the right approval presents what it stands for.
LEMMA RightIsPayload ==
  ASSUME NEW r \in Requests, PresentsRight(r)
  PROVE  PayloadOf(r) = r.payload
  <1>1. r.payload \in Payload
    BY ConstantsAssumption DEF Request
  <1> QED
    BY <1>1 DEF PresentsRight, PayloadOf, Payload

\* What a call can redeem: one entry of the table, with its own payload.
LEMMA HeldFacts ==
  ASSUME TypeOK, NEW c \in Call
  PROVE  /\ Held(req[c]) \subseteq store
         /\ \A e \in Held(req[c]) : e.payload = req[c].payload
         /\ \A e, f \in Held(req[c]) : e = f
  BY DEF TypeOK, Held, Redeemable

\* A server starts with an empty table and no call.
LEMMA InitIInv == Init => IInv
  <1> SUFFICES ASSUME Init PROVE IInv
    OBVIOUS
  <1>1. TypeOK
    BY DEF Init, TypeOK
  <1> QED
    BY <1>1 DEF Init, IInv, IdleIsBlank, SawIsValidation, MetadataIsValidation, StoreGenuine,
       OneEntryPerCall, SpentGenuine, SpentApart, InFlightCleared, UnsentYet, AuditTellsTruth

\* A step that leaves requests, approvals and judgements alone keeps what the
\* invariant says of them.
LEMMA HistoryKept ==
  ASSUME IInv, UNCHANGED <<req, spent, saw>>, store' \subseteq store
  PROVE  StoreGenuine' /\ OneEntryPerCall' /\ SpentGenuine' /\ SpentApart'
  BY DEF IInv, TypeOK, Entry, StoreGenuine, OneEntryPerCall, SpentGenuine, SpentApart, Genuine

\* Steps in which the calls move and end without touching tables or SAP.
LEMMA MoveIInv ==
  ASSUME IInv, TypeOK',
         UNCHANGED <<req, spent, saw, wire, audited>>, store' \subseteq store,
         \A d \in Call : pc'[d] = pc[d] \/ pc'[d] = "done"
  PROVE  IInv'
  <1>1. StoreGenuine' /\ OneEntryPerCall' /\ SpentGenuine' /\ SpentApart'
    BY HistoryKept
  <1>2. IdleIsBlank' /\ SawIsValidation' /\ MetadataIsValidation' /\ InFlightCleared'
        /\ UnsentYet' /\ AuditTellsTruth'
    BY DEF IInv, IdleIsBlank, SawIsValidation, MetadataIsValidation, InFlightCleared,
           Cleared, UnsentYet, AuditTellsTruth
  <1> QED
    BY <1>1, <1>2 DEF IInv

\* The history a call leaves is enough to tell who validated what.
LEMMA HistoryTypes ==
  ASSUME TypeOK
  PROVE  /\ \A e \in store : e.by \in Call /\ e \in Entry
         /\ \A c \in Call : req[c] \in Requests
         /\ \A c \in Call : \A e \in spent[c] : e.by \in Call /\ e \in Entry
  BY DEF TypeOK, Entry

\* A validation that judges puts at most its own entry in the table.
LEMMA JudgeIInv ==
  ASSUME IInv, NEW c \in Call, NEW md \in Metadata, Judge(c, md)
  PROVE  IInv'
  <1> DEFINE p == PayloadOf(req[c])
             new == [token |-> TokenOf(p), payload |-> p, expires |-> now + Ttl, by |-> c]
  <1>1. /\ pc[c] = "metadata"
        /\ saw' = [saw EXCEPT ![c] = {md}]
        /\ store' = IF HardFail(p, md) THEN store ELSE Inserted(Swept(store, now), new)
        /\ pc' = [pc EXCEPT ![c] = "done"] /\ result' = [result EXCEPT ![c] = "ok"]
        /\ UNCHANGED <<now, restarts, req, spent, wire, audited>>
    BY DEF Judge, End, Quiet
  <1>2. req[c] \in Requests /\ p \in Payload /\ TokenOf(p) \in Payload
    BY PayloadType DEF IInv, TypeOK
  <1>3. now + Ttl \in Nat
    BY TtlAssumption DEF IInv, TypeOK
  <1>4. new \in Entry /\ new.by = c /\ new.payload = p /\ new.token = TokenOf(p)
    BY <1>2, <1>3 DEF Entry
  <1> HIDE DEF new
  <1>5. \A e \in store' : e \in store \/ (e = new /\ ~HardFail(p, md))
    BY <1>1 DEF Inserted, Swept
  <1>6. \A e, f \in store' : e.token = f.token => e = f
    BY <1>1 DEF Inserted, Swept, IInv, TypeOK
  <1>7. TypeOK'
    BY <1>1, <1>4, <1>5, <1>6 DEF IInv, TypeOK
  <1>8. saw[c] = {} /\ req[c].tool = "validate" /\ spent[c] = {} /\ wire[c] = "none"
    BY <1>1 DEF IInv, MetadataIsValidation
  <1>9. /\ saw'[c] = {md} /\ pc'[c] = "done"
        /\ \A d \in Call : d # c => saw'[d] = saw[d] /\ pc'[d] = pc[d]
    BY <1>1 DEF IInv, TypeOK
  <1>10. /\ \A e \in store : e.by # c /\ e.by \in Call
         /\ \A d \in Call : \A e \in spent[d] : e.by # c /\ e.by \in Call
    BY <1>8, HistoryTypes DEF IInv, StoreGenuine, SpentGenuine, Genuine
  <1>11. StoreGenuine' /\ OneEntryPerCall'
    <2>1. ASSUME NEW e \in store' PROVE Genuine(e)'
      <3>1. CASE e \in store
        BY <1>1, <1>9, <1>10, <3>1 DEF IInv, StoreGenuine, Genuine
      <3>2. CASE e = new /\ ~HardFail(p, md)
        BY <1>1, <1>4, <1>9, <3>2 DEF Genuine
      <3> QED
        BY <1>5, <3>1, <3>2
    <2>2. OneEntryPerCall'
      BY <1>4, <1>5, <1>10 DEF IInv, OneEntryPerCall
    <2> QED
      BY <2>1, <2>2 DEF StoreGenuine
  <1>12. SpentGenuine' /\ SpentApart'
    BY <1>1, <1>4, <1>5, <1>9, <1>10 DEF IInv, SpentGenuine, SpentApart, Genuine
  <1>13. IdleIsBlank' /\ SawIsValidation' /\ MetadataIsValidation' /\ InFlightCleared'
         /\ UnsentYet' /\ AuditTellsTruth'
    BY <1>1, <1>8, <1>9 DEF IInv, IdleIsBlank, SawIsValidation, MetadataIsValidation,
       InFlightCleared, Cleared, UnsentYet, AuditTellsTruth
  <1> QED
    BY <1>7, <1>11, <1>12, <1>13 DEF IInv

\* Consuming moves the held entry from the table to the call, whatever the
\* call goes on to do.
LEMMA ConsumesIInv ==
  ASSUME IInv, TypeOK', NEW c \in Call, Consumes(c),
         \A d \in Call : d # c => pc'[d] = pc[d],
         audited'[c] \in {"none", "rejected"},
         \A d \in Call : d # c => audited'[d] = audited[d],
         \/ pc'[c] = "done"
         \/ /\ pc'[c] \in {"write", "keys"} /\ Held(req[c]) # {} /\ Executable(req[c])
            /\ pc'[c] = "write" => req[c].payload.op = "create"
  PROVE  IInv'
  <1>1. /\ pc[c] = "idle" /\ req[c].tool # "validate" /\ Admitted(req[c])
        /\ req[c].tool = "execute" => PresentsRight(req[c])
        /\ spent' = [spent EXCEPT ![c] = Held(req[c])]
        /\ store' = Swept(store, now) \ Held(req[c])
        /\ UNCHANGED <<now, restarts, req, saw, wire>>
    BY DEF Consumes, Quiet
  <1>2. /\ Held(req[c]) \subseteq store
        /\ \A e \in Held(req[c]) : e.payload = req[c].payload
        /\ \A e, f \in Held(req[c]) : e = f
    BY HeldFacts DEF IInv
  <1>3. /\ spent'[c] = Held(req[c])
        /\ \A d \in Call : d # c => spent'[d] = spent[d]
    BY <1>1 DEF IInv, TypeOK
  <1>4. store' \subseteq store /\ \A e \in store' : e \notin Held(req[c])
    BY <1>1 DEF Swept
  <1>5. saw[c] = {} /\ wire[c] = "none" /\ audited[c] = "none"
    BY <1>1 DEF IInv, IdleIsBlank
  <1>6. StoreGenuine' /\ OneEntryPerCall'
    BY <1>1, <1>4 DEF IInv, StoreGenuine, OneEntryPerCall, Genuine
  <1>7. SpentGenuine'
    BY <1>1, <1>2, <1>3 DEF IInv, SpentGenuine, StoreGenuine, Genuine
  <1>8. SpentApart'
    <2>1. \A e \in Held(req[c]) : \A f \in store' : f.by # e.by
      BY <1>2, <1>4 DEF IInv, OneEntryPerCall
    <2>2. \A e \in Held(req[c]) : \A d \in Call : \A f \in spent[d] : f.by # e.by
      BY <1>2 DEF IInv, SpentApart
    <2> QED
      BY <1>2, <1>3, <1>4, <2>1, <2>2 DEF IInv, SpentApart
  <1>9. IdleIsBlank' /\ SawIsValidation' /\ MetadataIsValidation' /\ AuditTellsTruth'
    BY <1>1, <1>3, <1>5 DEF IInv, IdleIsBlank, SawIsValidation, MetadataIsValidation,
       AuditTellsTruth
  <1>10. Executable(req[c]) => PresentsRight(req[c])
    BY <1>1 DEF Executable
  <1>11. InFlightCleared' /\ UnsentYet'
    BY <1>1, <1>3, <1>5, <1>10 DEF IInv, InFlightCleared, Cleared, UnsentYet
  <1> QED
    BY <1>6, <1>7, <1>8, <1>9, <1>11 DEF IInv

\* Every step of every call, of SAP, of the clock and of a restart keeps the
\* invariant.
LEMMA StepIInv == IInv /\ [Next]_vars => IInv'
  <1> SUFFICES ASSUME IInv, [Next]_vars PROVE IInv'
    OBVIOUS
  <1> USE DEF Quiet, Goto, End
  <1>1. CASE UNCHANGED vars
    <2>1. TypeOK' /\ UNCHANGED <<req, spent, saw, wire, audited, store, pc>>
      BY <1>1 DEF IInv, TypeOK, vars
    <2> QED
      BY <2>1, MoveIInv
  <1>2. CASE Tick
    <2>1. TypeOK' /\ UNCHANGED <<req, spent, saw, wire, audited, store, pc>>
      BY <1>2 DEF IInv, TypeOK, Tick
    <2> QED
      BY <2>1, MoveIInv
  <1>3. CASE Restart
    <2>1. TypeOK' /\ UNCHANGED <<req, spent, saw, wire, audited>> /\ store' \subseteq store
      BY <1>3 DEF IInv, TypeOK, Restart
    <2>2. \A d \in Call : pc'[d] = pc[d] \/ pc'[d] = "done"
      BY <1>3 DEF Restart
    <2> QED
      BY <2>1, <2>2, MoveIInv
  <1>4. ASSUME NEW c \in Call,
               \/ Refuse(c) \/ NotValidatable(c) \/ CannotSend(c)
               \/ ReplyErr(c) \/ Disconnect(c)
        PROVE  IInv'
    <2>1. /\ UNCHANGED <<now, restarts, req, spent, saw, wire, audited, store>>
          /\ pc' = [pc EXCEPT ![c] = "done"]
          /\ \/ result' = [result EXCEPT ![c] = "error"]
             \/ result' = [result EXCEPT ![c] = "dropped"]
      BY <1>4 DEF Refuse, NotValidatable, CannotSend, ReplyErr, Disconnect
    <2>2. TypeOK' /\ \A d \in Call : pc'[d] = pc[d] \/ pc'[d] = "done"
      BY <2>1 DEF IInv, TypeOK
    <2> QED
      BY <2>1, <2>2, MoveIInv
  <1>5. ASSUME NEW c \in Call, StartValidate(c) PROVE IInv'
    <2>1. /\ pc[c] = "idle" /\ req[c].tool = "validate"
          /\ UNCHANGED <<now, restarts, result, req, spent, saw, wire, audited, store>>
          /\ pc' = [pc EXCEPT ![c] = "metadata"]
      BY <1>5 DEF StartValidate
    <2>2. TypeOK'
      BY <2>1 DEF IInv, TypeOK
    <2>3. StoreGenuine' /\ OneEntryPerCall' /\ SpentGenuine' /\ SpentApart'
      BY <2>1, HistoryKept
    <2>4. pc'[c] = "metadata" /\ \A d \in Call : d # c => pc'[d] = pc[d]
      BY <2>1 DEF IInv, TypeOK
    <2>5. saw[c] = {} /\ spent[c] = {} /\ wire[c] = "none"
      BY <2>1 DEF IInv, IdleIsBlank
    <2>6. IdleIsBlank' /\ SawIsValidation' /\ MetadataIsValidation'
          /\ InFlightCleared' /\ UnsentYet' /\ AuditTellsTruth'
      BY <2>1, <2>4, <2>5 DEF IInv, IdleIsBlank, SawIsValidation, MetadataIsValidation,
         InFlightCleared, Cleared, UnsentYet, AuditTellsTruth
    <2> QED
      BY <2>2, <2>3, <2>6 DEF IInv
  <1>6. ASSUME NEW c \in Call, NEW md \in Metadata, Judge(c, md) PROVE IInv'
    BY <1>6, JudgeIInv
  <1>7. ASSUME NEW c \in Call, Mismatch(c) \/ ReplyOk(c) PROVE IInv'
    <2>1. /\ UNCHANGED <<now, restarts, req, spent, saw, wire, store>>
          /\ pc' = [pc EXCEPT ![c] = "done"]
          /\ \/ result' = [result EXCEPT ![c] = "error"]
             \/ result' = [result EXCEPT ![c] = "ok"]
          /\ \/ audited' = audited
             \/ audited' = [audited EXCEPT ![c] = "rejected"]
             \/ /\ audited' = [audited EXCEPT ![c] = "ok"]
                /\ pc[c] = "reply" /\ wire[c] = "applied"
      BY <1>7 DEF Mismatch, ReplyOk, Audit
    <2>2. TypeOK'
      BY <2>1 DEF IInv, TypeOK
    <2>3. StoreGenuine' /\ OneEntryPerCall' /\ SpentGenuine' /\ SpentApart'
      BY <2>1, HistoryKept
    <2>4. pc'[c] = "done" /\ \A d \in Call : d # c => pc'[d] = pc[d] /\ audited'[d] = audited[d]
      BY <2>1 DEF IInv, TypeOK
    <2>5. AuditTellsTruth'
      BY <2>1, <2>4 DEF IInv, TypeOK, AuditTellsTruth, InFlightCleared, Cleared
    <2>6. IdleIsBlank' /\ SawIsValidation' /\ MetadataIsValidation' /\ InFlightCleared'
          /\ UnsentYet'
      BY <2>1, <2>4 DEF UnsentYet, IInv, IdleIsBlank, SawIsValidation, MetadataIsValidation,
         InFlightCleared, Cleared
    <2> QED
      BY <2>2, <2>3, <2>5, <2>6 DEF IInv
  <1>8. ASSUME NEW c \in Call, NotHeld(c) \/ Burn(c) \/ Claim(c) PROVE IInv'
    <2>1. Consumes(c)
      BY <1>8 DEF NotHeld, Burn, Claim
    <2>2. /\ UNCHANGED <<now, restarts, req, saw, wire>>
          /\ pc[c] = "idle"
          /\ spent' = [spent EXCEPT ![c] = Held(req[c])]
          /\ store' = Swept(store, now) \ Held(req[c])
      BY <2>1 DEF Consumes
    <2>3. /\ pc' \in [Call -> {"idle", "metadata", "keys", "write", "reply", "done"}]
          /\ \A d \in Call : d # c => pc'[d] = pc[d]
          /\ \/ pc'[c] = "done"
             \/ /\ pc'[c] \in {"write", "keys"} /\ Held(req[c]) # {} /\ Executable(req[c])
                /\ pc'[c] = "write" => req[c].payload.op = "create"
      BY <1>8 DEF NotHeld, Burn, Claim, IInv, TypeOK
    <2>4. result' \in [Call -> {"none", "ok", "error", "dropped"}]
      BY <1>8 DEF NotHeld, Burn, Claim, IInv, TypeOK
    <2>5. audited' = audited \/ audited' = [audited EXCEPT ![c] = "rejected"]
      BY <1>8 DEF NotHeld, Burn, Claim, Audit
    <2>6. audited[c] = "none"
      BY <2>2 DEF IInv, IdleIsBlank
    <2>7. /\ audited' \in [Call -> {"none", "ok", "rejected"}]
          /\ audited'[c] \in {"none", "rejected"}
          /\ \A d \in Call : d # c => audited'[d] = audited[d]
      BY <2>5, <2>6 DEF IInv, TypeOK
    <2>8. Held(req[c]) \subseteq store
      BY HeldFacts DEF IInv
    <2>9. store' \subseteq store /\ spent' \in [Call -> SUBSET Entry]
      BY <2>2, <2>8 DEF Swept, IInv, TypeOK
    <2>10. TypeOK'
      BY <2>2, <2>3, <2>4, <2>7, <2>9 DEF IInv, TypeOK
    <2> QED
      BY <2>1, <2>3, <2>7, <2>10, ConsumesIInv
  <1>9. ASSUME NEW c \in Call, FormKey(c) \/ Send(c) PROVE IInv'
    <2>1. /\ UNCHANGED <<now, restarts, req, spent, saw, audited, store>>
          /\ pc[c] \in {"keys", "write"}
          /\ \/ /\ wire' = wire
                /\ \/ pc' = [pc EXCEPT ![c] = "done"]
                   \/ req[c].payload.keys = "good" /\ pc' = [pc EXCEPT ![c] = "write"]
             \/ /\ pc[c] = "write" /\ pc' = [pc EXCEPT ![c] = "reply"]
                /\ wire' = [wire EXCEPT ![c] = "sent"]
      BY <1>9 DEF FormKey, Send
    <2>2. result' = result \/ result' = [result EXCEPT ![c] = "error"]
      BY <1>9 DEF FormKey, Send
    <2>3. TypeOK'
      BY <2>1, <2>2 DEF IInv, TypeOK
    <2>4. StoreGenuine' /\ OneEntryPerCall' /\ SpentGenuine' /\ SpentApart'
      BY <2>1, HistoryKept
    <2>5. /\ pc'[c] \in {"write", "reply", "done"}
          /\ \A d \in Call : d # c => pc'[d] = pc[d] /\ wire'[d] = wire[d]
      BY <2>1 DEF IInv, TypeOK
    <2>6. Cleared(c)'
      BY <2>1 DEF IInv, InFlightCleared, Cleared
    <2>7. pc'[c] \in {"write", "reply"} \/ wire'[c] # "none" =>
            (req[c].payload.op # "create" => req[c].payload.keys = "good")
      <3>1. pc[c] = "write" \/ wire[c] # "none" =>
              (req[c].payload.op # "create" => req[c].payload.keys = "good")
        BY DEF IInv, InFlightCleared
      <3>2. \/ wire'[c] = wire[c] /\ pc'[c] = "done"
            \/ req[c].payload.keys = "good"
            \/ pc[c] = "write"
        BY <2>1 DEF IInv, TypeOK
      <3> QED
        BY <3>1, <3>2
    <2>8. audited[c] # "ok" /\ wire[c] = "none"
      BY <2>1 DEF IInv, AuditTellsTruth, UnsentYet
    <2>9. InFlightCleared' /\ UnsentYet'
      <3>1. ASSUME NEW d \in Call, d # c
            PROVE  pc'[d] = pc[d] /\ wire'[d] = wire[d] /\ (Cleared(d)' <=> Cleared(d))
        BY <2>1, <2>5, <3>1 DEF Cleared
      <3>2. pc'[c] = "write" => wire'[c] = "none"
        BY <2>1, <2>8 DEF IInv, TypeOK
      <3>3. InFlightCleared'
        BY <2>1, <2>6, <2>7, <3>1 DEF IInv, InFlightCleared
      <3>4. UnsentYet'
        BY <2>5, <3>1, <3>2 DEF IInv, UnsentYet
      <3> QED
        BY <3>3, <3>4
    <2>10. AuditTellsTruth'
      BY <2>1, <2>5, <2>8 DEF IInv, AuditTellsTruth
    <2>11. IdleIsBlank' /\ SawIsValidation' /\ MetadataIsValidation'
      BY <2>1, <2>5 DEF IInv, IdleIsBlank, SawIsValidation, MetadataIsValidation
    <2> QED
      BY <2>3, <2>4, <2>9, <2>10, <2>11 DEF IInv
  <1>10. ASSUME NEW c \in Call, NEW verdict \in {"applied", "refused"}, SapDecides(c, verdict)
         PROVE  IInv'
    <2>1. /\ UNCHANGED <<now, restarts, req, spent, saw, audited, store, pc, result>>
          /\ wire[c] = "sent" /\ wire' = [wire EXCEPT ![c] = verdict]
      BY <1>10 DEF SapDecides
    <2>2. TypeOK'
      BY <2>1 DEF IInv, TypeOK
    <2>3. StoreGenuine' /\ OneEntryPerCall' /\ SpentGenuine' /\ SpentApart'
      BY <2>1, HistoryKept
    <2>4. \A d \in Call : d # c => wire'[d] = wire[d]
      BY <2>1 DEF IInv, TypeOK
    <2>5. IdleIsBlank' /\ SawIsValidation' /\ MetadataIsValidation' /\ InFlightCleared'
          /\ UnsentYet' /\ AuditTellsTruth'
      BY <2>1, <2>4 DEF IInv, IdleIsBlank, SawIsValidation, MetadataIsValidation,
         InFlightCleared, Cleared, UnsentYet, AuditTellsTruth
    <2> QED
      BY <2>2, <2>3, <2>5 DEF IInv
  <1> QED
    BY <1>1, <1>2, <1>3, <1>4, <1>5, <1>6, <1>7, <1>8, <1>9, <1>10 DEF Next, Arrive, Proceed

\* The invariant holds in every reachable state.
THEOREM Inductive == Spec => []IInv
  BY InitIInv, StepIInv, PTL DEF Spec
-----------------------------------------------------------------------------
\* The variables keep their types and the table stays keyed by token.
THEOREM TypeCorrect == Spec => []TypeOK
  <1>1. IInv => TypeOK
    BY DEF IInv
  <1> QED
    BY Inductive, <1>1, PTL

\* No two calls send a write on the strength of one validation, through
\* retries, disconnects, restarts and lost answers.
THEOREM OneWriteTheorem == Spec => []OneWritePerValidation
  <1>1. IInv => OneWritePerValidation
    BY DEF IInv, SpentApart, OneWritePerValidation
  <1> QED
    BY Inductive, <1>1, PTL

\* What is sent is what was validated: body, instance and credentials.
THEOREM MatchTheorem == Spec => []WritesMatchValidation
  <1>1. IInv => WritesMatchValidation
    <2> SUFFICES ASSUME IInv, NEW c \in Call, wire[c] # "none"
                 PROVE  \E v \in Call : \E md \in saw[v] :
                          /\ req[v].tool = "validate" /\ pc[v] = "done"
                          /\ ~HardFail(PayloadOf(req[v]), md)
                          /\ PayloadOf(req[c]) = PayloadOf(req[v])
      BY DEF WritesMatchValidation
    <2>1. Cleared(c)
      BY DEF IInv, InFlightCleared
    <2>2. PICK e \in spent[c] : TRUE
      BY <2>1 DEF Cleared
    <2>3. e.by \in Call /\ Genuine(e) /\ e.payload = req[c].payload
      BY <2>2, HistoryTypes DEF IInv, SpentGenuine
    <2>4. PICK md \in saw[e.by] : ~HardFail(PayloadOf(req[e.by]), md)
      BY <2>3 DEF Genuine
    <2>5. PayloadOf(req[c]) = req[c].payload
      BY <2>1, RightIsPayload, HistoryTypes DEF IInv, Cleared
    <2>6. req[e.by].tool = "validate" /\ pc[e.by] = "done"
      BY <2>3, <2>4 DEF IInv, SawIsValidation
    <2> QED
      BY <2>3, <2>4, <2>5, <2>6 DEF Genuine
  <1> QED
    BY Inductive, <1>1, PTL

\* The instance and the entity an approval names are within what the caller
\* that spends it may use.
THEOREM ScopeTheorem == Spec => []WritesStayInScope
  <1>1. IInv => WritesStayInScope
    BY DEF IInv, InFlightCleared, Cleared, Admitted, PresentsRight, Executable,
           WritesStayInScope
  <1> QED
    BY Inductive, <1>1, PTL

\* An "ok" in the audit log is the truth.
THEOREM AuditTheorem == Spec => []AuditTellsTruth
  <1>1. IInv => AuditTellsTruth
    BY DEF IInv
  <1> QED
    BY Inductive, <1>1, PTL

\* A refused execute_approved_write costs its approval nothing.
THEOREM RefusalTheorem == Spec => RefusalKeepsApproval
  <1>1. IInv /\ [Next]_vars =>
          [\A c \in Call :
             ( /\ pc[c] = "idle" /\ pc'[c] = "done" /\ result'[c] = "error"
               /\ req[c].tool = "execute" /\ req[c].payload.entity \in AllowedEntity )
             => \A e \in store \ store' : e.expires <= now]_vars
    <2> SUFFICES ASSUME IInv, Next, NEW c \in Call,
                        pc[c] = "idle", pc'[c] = "done", req[c].tool = "execute",
                        req[c].payload.entity \in AllowedEntity,
                        NEW e \in store \ store'
                 PROVE  e.expires <= now
      OBVIOUS
    <2>1. now \in Nat /\ e.expires \in Nat
      BY DEF IInv, TypeOK, Entry
    <2>2. store' # store
      OBVIOUS
    <2>3. \/ Restart
          \/ \E d \in Call : \/ \E md \in Metadata : Judge(d, md)
                            \/ NotHeld(d) \/ Burn(d) \/ Claim(d)
      BY <2>2 DEF Next, Arrive, Proceed, Quiet, Refuse, StartValidate, NotValidatable,
             Mismatch, FormKey, CannotSend, Send, SapDecides, ReplyOk, ReplyErr,
             Disconnect, Tick
    <2>4. ~Restart
      BY DEF Restart
    <2>5. PICK d \in Call : \/ \E md \in Metadata : Judge(d, md)
                           \/ NotHeld(d) \/ Burn(d) \/ Claim(d)
      BY <2>3, <2>4
    <2>6. d = c
      BY <2>5 DEF IInv, TypeOK, Judge, NotHeld, Burn, Claim, Goto, End
    <2>7. Executable(req[c])
      BY DEF Executable
    <2>8. NotHeld(c)
      BY <2>5, <2>6, <2>7 DEF IInv, TypeOK, Judge, Burn, Claim, Goto
    <2>9. store' = Swept(store, now)
      BY <2>8 DEF NotHeld, Consumes
    <2> QED
      BY <2>1, <2>9 DEF Swept
  <1> QED
    BY Inductive, <1>1, PTL DEF Spec, RefusalKeepsApproval
-----------------------------------------------------------------------------
\* Nothing is validated, redeemable or redeemed before the first call.
LEMMA InitRefines == Init => Grants!Init
  BY DEF Init, Grants!Init, Issued, Registered, Live, Redeemed

\* A step that issues and redeems nothing, and only loses live approvals.
LEMMA LapseRefines ==
  ASSUME UNCHANGED <<req, saw, spent>>, Live' \subseteq Live
  PROVE  [Grants!Next]_(Grants!vars)
  <1>1. Issued' = Issued /\ Redeemed' = Redeemed
    BY DEF Issued, Registered, Redeemed, AsGrant
  <1> QED
    BY <1>1 DEF Grants!Next, Grants!Lapse

\* A validation without a hard issue issues its one grant; with one, nothing.
LEMMA JudgeRefines ==
  ASSUME IInv, NEW c \in Call, NEW md \in Metadata, Judge(c, md)
  PROVE  [Grants!Next]_(Grants!vars)
  <1> DEFINE p == PayloadOf(req[c])
             new == [token |-> TokenOf(p), payload |-> p, expires |-> now + Ttl, by |-> c]
             g == [by |-> c, item |-> p]
  <1>1. /\ pc[c] = "metadata"
        /\ saw' = [saw EXCEPT ![c] = {md}]
        /\ store' = IF HardFail(p, md) THEN store ELSE Inserted(Swept(store, now), new)
        /\ UNCHANGED <<now, req, spent>>
    BY DEF Judge, Quiet
  <1>2. saw[c] = {}
    BY <1>1 DEF IInv, MetadataIsValidation
  <1>3. saw'[c] = {md} /\ \A d \in Call : d # c => saw'[d] = saw[d]
    BY <1>1 DEF IInv, TypeOK
  <1>4. Redeemed' = Redeemed
    BY <1>1 DEF Redeemed, AsGrant
  <1>5. CASE HardFail(p, md)
    <2>1. Registered' = Registered
      BY <1>1, <1>2, <1>3, <1>5 DEF Registered
    <2>2. Issued' = Issued /\ Live' = Live
      BY <1>1, <1>5, <2>1 DEF Issued, Live, AsGrant
    <2> QED
      BY <1>4, <2>2 DEF Grants!Next, Grants!Lapse
  <1>6. CASE ~HardFail(p, md)
    <2>1. Registered' = Registered \cup {c} /\ c \notin Registered
      BY <1>1, <1>2, <1>3, <1>6 DEF Registered
    <2>2. Issued' = Issued \cup {g} /\ \A h \in Issued : h.by # c
      BY <1>1, <2>1 DEF Issued
    <2>3. new.payload = p /\ new.expires = now + Ttl /\ new.by = c /\ now < now + Ttl
      BY TtlAssumption DEF IInv, TypeOK
    <2>4. new \in store' /\ store' \subseteq store \cup {new}
      BY <1>1, <1>6 DEF Inserted, Swept
    <2>5. AsGrant(new) = g
      BY <2>3 DEF AsGrant
    <2> HIDE DEF new
    <2>6. g \in Live'
      BY <1>1, <2>3, <2>4, <2>5 DEF Live, AsGrant
    <2>7. Live' \subseteq Live \cup {g}
      BY <1>1, <2>4, <2>5 DEF Live, AsGrant
    <2>8. g \in Grants!Grant /\ g.by = c
      BY DEF Grants!Grant, IInv, TypeOK
    <2> HIDE DEF g
    <2> QED
      BY <1>4, <2>2, <2>6, <2>7, <2>8 DEF Grants!Next, Grants!Issue
  <1> QED
    BY <1>5, <1>6

\* A call that consumes redeems the one grant it found, even if it then burns
\* it, or sweeps what has lapsed already.
LEMMA ConsumesRefines ==
  ASSUME IInv, NEW c \in Call, Consumes(c)
  PROVE  [Grants!Next]_(Grants!vars)
  <1>1. /\ pc[c] = "idle"
        /\ spent' = [spent EXCEPT ![c] = Held(req[c])]
        /\ store' = Swept(store, now) \ Held(req[c])
        /\ UNCHANGED <<now, req, saw>>
    BY DEF Consumes, Quiet
  <1>2. /\ Held(req[c]) \subseteq store
        /\ \A e, f \in Held(req[c]) : e = f
        /\ \A e \in Held(req[c]) : e.expires > now
    BY HeldFacts DEF IInv, Held, Redeemable
  <1>3. now \in Nat /\ \A e \in store : e.expires \in Nat
    BY DEF IInv, TypeOK, Entry
  <1>4. spent[c] = {}
    BY <1>1 DEF IInv, IdleIsBlank
  <1>5. Issued' = Issued
    BY <1>1 DEF Issued, Registered
  <1>6. {e \in store' : now < e.expires} = {e \in store : now < e.expires} \ Held(req[c])
    BY <1>1, <1>3 DEF Swept
  <1>7. CASE Held(req[c]) = {}
    <2>1. spent' = spent
      BY <1>1, <1>4, <1>7 DEF IInv, TypeOK
    <2>2. Live' \subseteq Live
      BY <1>1, <1>6 DEF Live, AsGrant
    <2> QED
      BY <1>1, <2>1, <2>2, LapseRefines
  <1>8. ASSUME NEW e \in Held(req[c]) PROVE [Grants!Next]_(Grants!vars)
    <2>1. Held(req[c]) = {e} /\ e \in store /\ now < e.expires
      BY <1>2, <1>3, <1>8
    <2>2. AsGrant(e) \in Live
      BY <2>1 DEF Live
    <2>3. \A f \in store : AsGrant(f) = AsGrant(e) => f = e
      BY <2>1 DEF AsGrant, IInv, OneEntryPerCall
    <2>4. Live' = Live \ {AsGrant(e)}
      <3>1. Live' = {AsGrant(f) : f \in {x \in store : now < x.expires} \ {e}}
        BY <1>1, <1>6, <2>1 DEF Live, AsGrant
      <3> QED
        BY <3>1, <2>1, <2>3 DEF Live
    <2>5. Redeemed' = Redeemed \cup {[grant |-> AsGrant(e), claim |-> c]}
      <3>1. /\ spent'[c] = {e}
            /\ \A d \in Call : d # c => spent'[d] = spent[d]
        BY <1>1, <2>1 DEF IInv, TypeOK
      <3> QED
        BY <3>1, <1>4 DEF Redeemed, AsGrant
    <2> QED
      BY <1>5, <2>2, <2>4, <2>5 DEF Grants!Next, Grants!Redeem
  <1> QED
    BY <1>7, <1>8

\* Every step of the write path is a step of the grants, or leaves them alone.
LEMMA StepRefines == IInv /\ [Next]_vars => [Grants!Next]_(Grants!vars)
  <1> SUFFICES ASSUME IInv, [Next]_vars PROVE [Grants!Next]_(Grants!vars)
    OBVIOUS
  <1>1. CASE UNCHANGED vars \/ Tick
    <2>1. /\ UNCHANGED <<req, saw, spent, store>> /\ now' \in {now, now + 1}
          /\ now \in Nat /\ \A e \in store : e.expires \in Nat
      BY <1>1 DEF vars, Tick, IInv, TypeOK, Entry
    <2>2. Live' \subseteq Live
      BY <2>1 DEF Live, AsGrant
    <2> QED
      BY <2>1, <2>2, LapseRefines
  <1>2. CASE Restart
    <2>1. UNCHANGED <<req, saw, spent>> /\ store' = {}
      BY <1>2 DEF Restart
    <2>2. Live' \subseteq Live
      BY <2>1 DEF Live
    <2> QED
      BY <2>1, <2>2, LapseRefines
  <1>3. ASSUME NEW c \in Call,
               \/ Refuse(c) \/ StartValidate(c) \/ NotValidatable(c) \/ Mismatch(c)
               \/ FormKey(c) \/ CannotSend(c) \/ Send(c) \/ ReplyOk(c) \/ ReplyErr(c)
               \/ Disconnect(c) \/ \E verdict \in {"applied", "refused"} : SapDecides(c, verdict)
        PROVE  [Grants!Next]_(Grants!vars)
    <2>1. UNCHANGED <<req, saw, spent, store, now>>
      BY <1>3 DEF Refuse, StartValidate, NotValidatable, Mismatch, FormKey, CannotSend, Send,
         ReplyOk, ReplyErr, Disconnect, SapDecides, Quiet
    <2>2. Live' = Live
      BY <2>1 DEF Live, AsGrant
    <2> QED
      BY <2>1, <2>2, LapseRefines
  <1>4. ASSUME NEW c \in Call, NotHeld(c) \/ Burn(c) \/ Claim(c)
        PROVE  [Grants!Next]_(Grants!vars)
    BY <1>4, ConsumesRefines DEF NotHeld, Burn, Claim
  <1> QED
    BY <1>1, <1>2, <1>3, <1>4, JudgeRefines DEF Next, Arrive, Proceed

\* The write path as a whole issues one-shot grants: a validation is a grant, a
\* restart and the clock lapse it, and one call redeems it or burns it.
LEMMA GrantsRefinement == Spec => ImplementsGrants
  BY Inductive, InitRefines, StepRefines, PTL DEF Spec, ImplementsGrants, Grants!Spec
-----------------------------------------------------------------------------
\* Whoever has not ended has not been told anything.
Unanswered == \A c \in Call : pc[c] # "done" => result[c] = "none"

\* An answer ends a call, and no call begins again.
LEMMA UnansweredStays == IInv /\ Unanswered /\ [Next]_vars => Unanswered'
  <1> SUFFICES ASSUME IInv, Unanswered, [Next]_vars PROVE Unanswered'
    OBVIOUS
  <1>1. /\ pc \in [Call -> {"idle", "metadata", "keys", "write", "reply", "done"}]
        /\ result \in [Call -> {"none", "ok", "error", "dropped"}]
    BY DEF IInv, TypeOK
  <1>2. ASSUME NEW c \in Call,
               (\E at \in {"metadata", "keys", "write", "reply"} : pc[c] # "done" /\ Goto(c, at))
               \/ (\E how \in {"ok", "error", "dropped"} : End(c, how))
        PROVE  Unanswered'
    BY <1>1, <1>2 DEF Unanswered, Goto, End
  <1>3. CASE UNCHANGED <<pc, result>>
    BY <1>3 DEF Unanswered
  <1>4. CASE Restart
    BY <1>1, <1>4 DEF Restart, Unanswered
  <1>5. ASSUME NEW c \in Call, Arrive(c) PROVE Unanswered'
    <2>1. pc[c] = "idle"
      BY <1>5 DEF Arrive, Refuse, StartValidate, Mismatch, NotHeld, Burn, Claim, Consumes
    <2>2. \/ \E at \in {"metadata", "keys", "write"} : Goto(c, at)
          \/ End(c, "error")
      BY <1>5 DEF Arrive, Refuse, StartValidate, Mismatch, NotHeld, Burn, Claim
    <2> QED
      BY <1>2, <2>1, <2>2
  <1>6. ASSUME NEW c \in Call, Proceed(c) \/ Disconnect(c) PROVE Unanswered'
    <2>1. pc[c] # "done"
      BY <1>6 DEF Proceed, NotValidatable, Judge, FormKey, CannotSend, Send, ReplyOk, ReplyErr,
         Disconnect
    <2>2. \/ \E at \in {"write", "reply"} : Goto(c, at)
          \/ \E how \in {"ok", "error", "dropped"} : End(c, how)
      BY <1>6 DEF Proceed, NotValidatable, Judge, FormKey, CannotSend, Send, ReplyOk, ReplyErr,
         Disconnect
    <2> QED
      BY <1>2, <2>1, <2>2
  <1>7. ASSUME NEW c \in Call, NEW verdict \in {"applied", "refused"}, SapDecides(c, verdict)
        PROVE  Unanswered'
    BY <1>3, <1>7 DEF SapDecides
  <1>8. CASE Tick \/ UNCHANGED vars
    BY <1>3, <1>8 DEF Tick, vars
  <1> QED
    BY <1>4, <1>5, <1>6, <1>7, <1>8 DEF Next

\* A step that changes neither what SAP applied nor what a writer was told.
LEMMA SilentRefines ==
  ASSUME Effects' = Effects, Told' = Told
  PROVE  [Remote!Next]_(Remote!vars)
  BY DEF Remote!vars

\* A call that writes ends with an error, whatever has become of its write.
LEMMA ErrorRefines ==
  ASSUME IInv, Unanswered, NEW c \in Call, pc[c] # "done", End(c, "error"), UNCHANGED <<req, wire>>
  PROVE  [Remote!Next]_(Remote!vars)
  <1>1. /\ result' = [result EXCEPT ![c] = "error"] /\ result[c] = "none"
        /\ result \in [Call -> {"none", "ok", "error", "dropped"}]
    BY DEF End, Unanswered, IInv, TypeOK
  <1>2. Effects' = Effects
    BY DEF Effects
  <1>3. CASE req[c].tool = "validate"
    <2>1. Told' = Told
      BY <1>1, <1>3 DEF Told
    <2> QED
      BY <1>2, <2>1, SilentRefines
  <1>4. CASE req[c].tool # "validate"
    <2>1. Told[c] = "none" /\ Told' = [Told EXCEPT ![c] = "error"]
      BY <1>1, <1>4 DEF Told
    <2> QED
      BY <1>2, <2>1 DEF Remote!Next, Remote!Fail
  <1> QED
    BY <1>3, <1>4

\* Every step of the write path is a step of the remote writes, or is silent.
LEMMA StepRefinesRemote ==
  IInv /\ Unanswered /\ [Next]_vars => [Remote!Next]_(Remote!vars)
  <1> SUFFICES ASSUME IInv, Unanswered, [Next]_vars PROVE [Remote!Next]_(Remote!vars)
    OBVIOUS
  <1>1. /\ result \in [Call -> {"none", "ok", "error", "dropped"}]
        /\ wire \in [Call -> {"none", "sent", "applied", "refused"}]
        /\ pc \in [Call -> {"idle", "metadata", "keys", "write", "reply", "done"}]
    BY DEF IInv, TypeOK
  <1>2. ASSUME NEW c \in Call, pc[c] # "done", End(c, "error"), UNCHANGED <<req, wire>>
        PROVE  [Remote!Next]_(Remote!vars)
    BY <1>2, ErrorRefines
  <1>3. CASE UNCHANGED <<req, wire, result>>
    <2>1. Effects' = Effects /\ Told' = Told
      BY <1>3 DEF Effects, Told
    <2> QED
      BY <2>1, SilentRefines
  <1>4. ASSUME NEW c \in Call, Arrive(c) PROVE [Remote!Next]_(Remote!vars)
    <2>1. pc[c] = "idle" /\ UNCHANGED <<req, wire>> /\ (UNCHANGED result \/ End(c, "error"))
      BY <1>4 DEF Arrive, Refuse, StartValidate, Mismatch, NotHeld, Burn, Claim, Consumes, Goto,
         Quiet
    <2> QED
      BY <1>2, <1>3, <2>1
  <1>5. ASSUME NEW c \in Call, NotValidatable(c) \/ FormKey(c) \/ CannotSend(c) \/ ReplyErr(c)
        PROVE  [Remote!Next]_(Remote!vars)
    <2>1. pc[c] # "done" /\ UNCHANGED <<req, wire>> /\ (UNCHANGED result \/ End(c, "error"))
      BY <1>5 DEF NotValidatable, FormKey, CannotSend, ReplyErr, Goto, Quiet
    <2> QED
      BY <1>2, <1>3, <2>1
  <1>6. ASSUME NEW c \in Call, NEW md \in Metadata, Judge(c, md) PROVE [Remote!Next]_(Remote!vars)
    <2>1. req[c].tool = "validate" /\ UNCHANGED <<req, wire>> /\ result' = [result EXCEPT ![c] = "ok"]
      BY <1>6 DEF Judge, End, Quiet, IInv, MetadataIsValidation
    <2>2. Effects' = Effects /\ Told' = Told
      BY <1>1, <2>1 DEF Effects, Told
    <2> QED
      BY <2>2, SilentRefines
  <1>7. ASSUME NEW c \in Call, Send(c) PROVE [Remote!Next]_(Remote!vars)
    <2>1. /\ pc[c] = "write" /\ wire' = [wire EXCEPT ![c] = "sent"] /\ UNCHANGED <<req, result>>
          /\ wire[c] = "none"
      BY <1>7 DEF Send, Goto, Quiet, IInv, UnsentYet
    <2>2. Effects' = Effects /\ Told' = Told
      BY <1>1, <2>1 DEF Effects, Told
    <2> QED
      BY <2>2, SilentRefines
  <1>8. ASSUME NEW c \in Call, NEW verdict \in {"applied", "refused"}, SapDecides(c, verdict)
        PROVE  [Remote!Next]_(Remote!vars)
    <2>1. wire[c] = "sent" /\ wire' = [wire EXCEPT ![c] = verdict] /\ UNCHANGED <<req, result>>
      BY <1>8 DEF SapDecides, Quiet
    <2>2. Told' = Told
      BY <2>1 DEF Told
    <2>3. CASE verdict = "applied"
      <3>1. Effects[c] = 0 /\ Effects' = [Effects EXCEPT ![c] = 1]
        BY <1>1, <2>1, <2>3 DEF Effects
      <3> QED
        BY <2>2, <3>1 DEF Remote!Next, Remote!TakeEffect
    <2>4. CASE verdict = "refused"
      <3>1. Effects' = Effects
        BY <1>1, <2>1, <2>4 DEF Effects
      <3> QED
        BY <2>2, <3>1, SilentRefines
    <2> QED
      BY <2>3, <2>4
  <1>9. ASSUME NEW c \in Call, ReplyOk(c) PROVE [Remote!Next]_(Remote!vars)
    <2>1. /\ wire[c] = "applied" /\ result' = [result EXCEPT ![c] = "ok"]
          /\ UNCHANGED <<req, wire>> /\ result[c] = "none" /\ req[c].tool # "validate"
      BY <1>9 DEF ReplyOk, End, Quiet, Unanswered, IInv, InFlightCleared, Cleared
    <2>2. Effects' = Effects /\ Effects[c] = 1
      BY <2>1 DEF Effects
    <2>3. Told[c] = "none" /\ Told' = [Told EXCEPT ![c] = "ok"]
      BY <1>1, <2>1 DEF Told
    <2> QED
      BY <2>2, <2>3 DEF Remote!Next, Remote!Succeed
  <1>10. ASSUME NEW c \in Call, Disconnect(c) PROVE [Remote!Next]_(Remote!vars)
    <2>1. /\ result' = [result EXCEPT ![c] = "dropped"] /\ UNCHANGED <<req, wire>>
          /\ result[c] = "none"
      BY <1>10 DEF Disconnect, End, Quiet, Unanswered
    <2>2. Effects' = Effects /\ Told' = Told
      BY <1>1, <2>1 DEF Effects, Told
    <2> QED
      BY <2>2, SilentRefines
  <1>11. CASE Restart
    <2>1. /\ UNCHANGED <<req, wire>>
          /\ \A c \in Call : result'[c] = result[c] \/ (result[c] = "none" /\ result'[c] = "dropped")
      BY <1>11 DEF Restart, Unanswered
    <2>2. Effects' = Effects /\ Told' = Told
      BY <2>1 DEF Effects, Told
    <2> QED
      BY <2>2, SilentRefines
  <1>12. CASE Tick \/ UNCHANGED vars
    BY <1>3, <1>12 DEF Tick, vars
  <1> QED
    BY <1>4, <1>5, <1>6, <1>7, <1>8, <1>9, <1>10, <1>11, <1>12 DEF Next, Proceed

\* For its caller, each call that writes is a remote write: SAP applies it once
\* at most, and a success is told after that, through restarts and lost answers.
LEMMA RemoteRefinement == Spec => ImplementsRemoteWrite
  <1>1. Init => Remote!Init /\ Unanswered
    BY DEF Init, Remote!Init, Effects, Told, Unanswered
  <1> QED
    BY <1>1, Inductive, UnansweredStays, StepRefinesRemote, PTL
       DEF Spec, ImplementsRemoteWrite, Remote!Spec

\* The write path implements both: a grant is redeemed once, and what a call is
\* told of its one write is true.
THEOREM Refinement == Spec => ImplementsPromises
  BY GrantsRefinement, RemoteRefinement DEF ImplementsPromises
=============================================================================
