---------------------- MODULE QuarantineCustody_proofs ----------------------
(***************************************************************************)
(* The safety properties of QuarantineCustody for every set of items,      *)
(* uploads, releases, deletions and purge runners.                         *)
(***************************************************************************)
EXTENDS QuarantineCustody, TLAPS

USE RequestsAssumption, BytesAssumption, CrashesAssumption DEF Requests

LEMMA BytesOfType == \A d \in Deliveries : BytesOf[d] \in Bytes
BY DEF Bytes

LEMMA ItemOfType == \A q \in Deliveries \cup Releases \cup Deletes : ItemOf[q] \in Items
OBVIOUS

\* The variables keep their types, in every step of every request.
LEMMA InitType == Init => TypeOK
BY DEF Init, TypeOK, Statuses, IdlePurge, IdleRebuild,
       UploadSteps, ReleaseSteps, DeleteSteps

LEMMA UploadType ==
    ASSUME TypeOK, NEW d \in Deliveries,
           Upload(d) \/ UploadCrash(d), UNCHANGED <<release, delete, purge, rebuild>>
    PROVE  TypeOK'
<1>. USE BytesOfType, ItemOfType
          DEF TypeOK, Statuses, UploadSteps, stores, row, outcome, UploadGoto
<1>1. CASE UploadCheck(d) BY <1>1 DEF UploadCheck
<1>2. CASE UploadWrite(d) BY <1>2 DEF UploadWrite
<1>3. CASE UploadRecord(d) BY <1>3 DEF UploadRecord
<1>4. CASE UploadPreview(d) BY <1>4 DEF UploadPreview
<1>5. CASE UploadCrash(d) BY <1>5 DEF UploadCrash
<1>. QED BY <1>1, <1>2, <1>3, <1>4, <1>5 DEF Upload

LEMMA ReleaseType ==
    ASSUME TypeOK, NEW r \in Releases,
           Release(r) \/ ReleaseCrash(r), UNCHANGED <<upload, delete, purge, rebuild>>
    PROVE  TypeOK'
<1>. USE ItemOfType DEF TypeOK, ReleaseSteps, stores, row, outcome, Goto, Returned
<1>1. CASE WhitelistPrecheck(r) BY <1>1 DEF WhitelistPrecheck
<1>2. CASE ReleaseLookup(r) BY <1>2 DEF ReleaseLookup
<1>3. CASE ReleaseClaim(r) BY <1>3 DEF ReleaseClaim, Statuses
<1>4. CASE ReleaseRead(r) BY <1>4 DEF ReleaseRead
<1>5. CASE ReleaseSend(r)
  <2>1. /\ UNCHANGED delivered \/ delivered' = [delivered EXCEPT ![ItemOf[r]] = @ \cup {r}]
        /\ UNCHANGED acked \/ acked' = [acked EXCEPT ![ItemOf[r]] = @ \cup {r}]
        /\ release' \in [Releases -> ReleaseSteps]
    BY <1>5 DEF ReleaseSend
  <2>2. delivered' \in [Items -> SUBSET Releases]
    BY <2>1
  <2>3. acked' \in [Items -> SUBSET Releases]
    BY <2>1
  <2>. QED BY <1>5, <2>1, <2>2, <2>3 DEF ReleaseSend
<1>6. CASE ReleaseEnd(r) BY <1>6 DEF ReleaseEnd, Statuses
<1>7. CASE ReleaseCorrect(r) BY <1>7 DEF ReleaseCorrect
<1>8. CASE ReleaseDrop(r) BY <1>8 DEF ReleaseDrop
<1>9. CASE ReleaseForget(r) BY <1>9 DEF ReleaseForget, Statuses
<1>10. CASE FindRule(r) BY <1>10 DEF FindRule
<1>11. CASE AddRule(r) BY <1>11 DEF AddRule
<1>12. CASE ReleaseCrash(r) BY <1>12 DEF ReleaseCrash
<1>. QED
  BY <1>1, <1>2, <1>3, <1>4, <1>5, <1>6, <1>7, <1>8, <1>9, <1>10, <1>11, <1>12
  DEF Release

LEMMA DeleteType ==
    ASSUME TypeOK, NEW e \in Deletes,
           Delete(e) \/ DeleteCrash(e), UNCHANGED <<upload, release, purge, rebuild>>
    PROVE  TypeOK'
<1>. USE ItemOfType DEF TypeOK, DeleteSteps, stores, row, outcome, DeleteGoto
<1>1. CASE DeleteLookup(e) BY <1>1 DEF DeleteLookup
<1>2. CASE DeleteObject(e) BY <1>2 DEF DeleteObject, Discard
<1>3. CASE DeleteScrub(e) BY <1>3 DEF DeleteScrub, Scrub, Statuses
<1>4. CASE DeleteCrash(e) BY <1>4 DEF DeleteCrash
<1>. QED BY <1>1, <1>2, <1>3, <1>4 DEF Delete

\* Updating one field of a pass keeps the type of all passes.
LEMMA PurgeRecord ==
    ASSUME TypeOK, NEW p \in Purges, NEW S \in SUBSET Items
    PROVE  LET Passes == [Purges -> [todo : SUBSET Items, stored : SUBSET Items,
                                     current : SUBSET Items]] IN
           /\ [purge EXCEPT ![p].current = S] \in Passes
           /\ [purge EXCEPT ![p].todo = S] \in Passes
           /\ purge[p].todo \subseteq Items
<1>. DEFINE Pass == [todo : SUBSET Items, stored : SUBSET Items, current : SUBSET Items]
<1>1. purge \in [Purges -> Pass] /\ purge[p] \in Pass
  BY DEF TypeOK
<1>2. [purge[p] EXCEPT !.current = S] \in Pass
  BY <1>1
<1>3. [purge[p] EXCEPT !.todo = S] \in Pass
  BY <1>1
<1>. HIDE DEF Pass
<1>4. ASSUME NEW q \in Pass PROVE [purge EXCEPT ![p] = q] \in [Purges -> Pass]
  BY <1>1
<1>5. /\ [purge EXCEPT ![p].current = S] \in [Purges -> Pass]
      /\ [purge EXCEPT ![p].todo = S] \in [Purges -> Pass]
  BY <1>2, <1>3, <1>4
<1>. USE DEF Pass
<1>. QED BY <1>1, <1>5

LEMMA PurgeType ==
    ASSUME TypeOK, NEW p \in Purges,
           PurgeStep(p)
    PROVE  TypeOK'
<1>. USE DEF TypeOK, stores, row, outcome, IdlePurge
<1>0. UNCHANGED <<upload, release, delete, rebuild>> BY DEF PurgeStep
<1>. USE <1>0
<1>1. CASE PurgeSelect(p) BY <1>1 DEF PurgeSelect
<1>2. ASSUME NEW i \in Items, PurgeObject(p, i) PROVE TypeOK'
  <2>1. object' \in [Items -> Bytes \cup {NoBytes}] /\ discarded' \in [Items -> BOOLEAN]
    BY <1>2 DEF PurgeObject, Discard
  <2>2. UNCHANGED <<row, outcome>>
    BY <1>2 DEF PurgeObject, Discard
  <2>3. purge' \in [Purges -> [todo : SUBSET Items, stored : SUBSET Items, current : SUBSET Items]]
    BY <1>2 DEF PurgeObject
  <2>. QED BY <2>1, <2>2, <2>3
<1>3. ASSUME NEW i \in Items, PurgeScrub(p, i) PROVE TypeOK'
  <2>1. CASE status[i] = "held" BY <1>3, <2>1, PurgeRecord DEF PurgeScrub, Scrub, Statuses
  <2>2. CASE status[i] # "held" BY <1>3, <2>2, PurgeRecord DEF PurgeScrub
  <2>. QED BY <2>1, <2>2
<1>4. ASSUME NEW i \in Items, PurgeSkip(p, i) PROVE TypeOK'
  BY <1>4, PurgeRecord DEF PurgeSkip
<1>5. CASE PurgeCrash(p) BY <1>5 DEF PurgeCrash
<1>. QED BY <1>1, <1>2, <1>3, <1>4, <1>5 DEF PurgeStep

LEMMA ItemType ==
    ASSUME TypeOK, NEW i \in Items,
           Hold(i) \/ Expire(i) \/ LifecycleExpire(i), UNCHANGED requests
    PROVE  TypeOK'
<1>. USE DEF TypeOK, stores, row, outcome, requests
<1>1. CASE Hold(i) BY <1>1 DEF Hold, Statuses
<1>2. CASE Expire(i) BY <1>2 DEF Expire, Statuses
<1>3. CASE LifecycleExpire(i) BY <1>3 DEF LifecycleExpire, Discard
<1>. QED BY <1>1, <1>2, <1>3

LEMMA RebuildType ==
    ASSUME TypeOK, Rebuild
    PROVE  TypeOK'
<1>. USE DEF TypeOK, stores, row, outcome, requests
<1>0. UNCHANGED <<upload, release, delete, purge>> BY DEF Rebuild
<1>. USE <1>0
<1>1. CASE RebuildSelect BY <1>1 DEF RebuildSelect
<1>2. ASSUME NEW i \in Items, RebuildRead(i) PROVE TypeOK'
  BY <1>2 DEF RebuildRead
<1>3. ASSUME NEW i \in Items, RebuildWrite(i) PROVE TypeOK'
  BY <1>3 DEF RebuildWrite
<1>. QED BY <1>1, <1>2, <1>3 DEF Rebuild

LEMMA TypeStep == TypeOK /\ [Next]_vars => TypeOK'
<1>. SUFFICES ASSUME TypeOK, [Next]_vars PROVE TypeOK'
  OBVIOUS
<1>1. CASE UNCHANGED vars BY <1>1 DEF vars, stores, row, outcome, requests, TypeOK
<1>2. ASSUME NEW i \in Items, Hold(i) \/ Expire(i) \/ LifecycleExpire(i),
             UNCHANGED requests
      PROVE  TypeOK'
  BY <1>2, ItemType
<1>3. ASSUME NEW d \in Deliveries, Upload(d) \/ UploadCrash(d),
             UNCHANGED <<release, delete, purge, rebuild>>
      PROVE  TypeOK'
  BY <1>3, UploadType
<1>4. ASSUME NEW r \in Releases, Release(r) \/ ReleaseCrash(r),
             UNCHANGED <<upload, delete, purge, rebuild>>
      PROVE  TypeOK'
  BY <1>4, ReleaseType
<1>5. ASSUME NEW e \in Deletes, Delete(e) \/ DeleteCrash(e),
             UNCHANGED <<upload, release, purge, rebuild>>
      PROVE  TypeOK'
  BY <1>5, DeleteType
<1>6. ASSUME NEW p \in Purges, PurgeStep(p)
      PROVE  TypeOK'
  BY <1>6, PurgeType
<1>7. CASE Rebuild BY <1>7, RebuildType
<1>8. CASE CustodyNext
  <2>1. CASE Crash BY <2>1, <1>4, <1>5 DEF Crash
  <2>2. ASSUME NEW r \in Releases, Release(r) PROVE TypeOK'
    BY <2>2, <1>4 DEF Release
  <2>3. ASSUME NEW e \in Deletes, Delete(e) PROVE TypeOK'
    BY <2>3, <1>5 DEF Delete
  <2>. QED BY <1>8, <2>1, <2>2, <2>3, <1>2, <1>6, <1>7 DEF CustodyNext
<1>9. CASE \E d \in Deliveries : Upload(d)
  BY <1>9, <1>3 DEF Upload
<1>. QED BY <1>1, <1>2, <1>3, <1>8, <1>9 DEF Next

\* Every reachable state has the declared types, whatever the constants.
THEOREM TypeCorrect == Spec => []TypeOK
BY InitType, TypeStep, PTL DEF Spec

-----------------------------------------------------------------------------
(* The inductive invariant.                                                *)

LEMMA InitInv == Init => CustodyInv
BY DEF Init, CustodyInv, OneReleaseAtATime, ClaimedStatus, AckedStatus, PastSend,
       MarkedDeliveredIsDelivered, WrittenBeforeRecorded, StoredUntilDelivered, Claims

LEMMA UploadInv ==
    ASSUME TypeOK, CustodyInv, NEW d \in Deliveries,
           Upload(d) \/ UploadCrash(d), UNCHANGED <<release, delete, purge, rebuild>>
    PROVE  CustodyInv'
<1>. USE ItemOfType, BytesOfType
     DEF TypeOK, CustodyInv, OneReleaseAtATime, ClaimedStatus, AckedStatus, PastSend,
          MarkedDeliveredIsDelivered, WrittenBeforeRecorded, StoredUntilDelivered,
          Claims, stores, row, outcome, requests,
          UploadGoto, DeleteGoto
<1>1. CASE UploadCheck(d) BY <1>1 DEF UploadCheck
<1>2. CASE UploadWrite(d) BY <1>2 DEF UploadWrite
<1>3. CASE UploadRecord(d)
  <2>1. OneReleaseAtATime' BY <1>3 DEF UploadRecord
  <2>2. ClaimedStatus' BY <1>3 DEF UploadRecord
  <2>3. AckedStatus' BY <1>3 DEF UploadRecord
  <2>4. PastSend' BY <1>3 DEF UploadRecord
  <2>5. MarkedDeliveredIsDelivered' BY <1>3 DEF UploadRecord
  <2>6. WrittenBeforeRecorded' BY <1>3 DEF UploadRecord
  <2>7. StoredUntilDelivered' BY <1>3 DEF UploadRecord
  <2>. QED BY <2>1, <2>2, <2>3, <2>4, <2>5, <2>6, <2>7
<1>4. CASE UploadPreview(d) BY <1>4 DEF UploadPreview
<1>5. CASE UploadCrash(d) BY <1>5 DEF UploadCrash
<1>. QED BY <1>1, <1>2, <1>3, <1>4, <1>5 DEF Upload

LEMMA ReleaseInv ==
    ASSUME TypeOK, CustodyInv, NEW r \in Releases,
           Release(r) \/ ReleaseCrash(r), UNCHANGED <<upload, delete, purge, rebuild>>
    PROVE  CustodyInv'
<1>. USE ItemOfType, BytesOfType
     DEF TypeOK, CustodyInv, OneReleaseAtATime, ClaimedStatus, AckedStatus, PastSend,
          MarkedDeliveredIsDelivered, WrittenBeforeRecorded, StoredUntilDelivered,
          Claims, stores, row, outcome, Goto, Returned
<1>1. CASE WhitelistPrecheck(r) BY <1>1 DEF WhitelistPrecheck
<1>2. CASE ReleaseLookup(r)
  <2>1. OneReleaseAtATime' BY <1>2 DEF ReleaseLookup
  <2>2. ClaimedStatus' BY <1>2 DEF ReleaseLookup
  <2>3. AckedStatus' BY <1>2 DEF ReleaseLookup
  <2>4. PastSend' BY <1>2 DEF ReleaseLookup
  <2>5. MarkedDeliveredIsDelivered' BY <1>2 DEF ReleaseLookup
  <2>6. WrittenBeforeRecorded' BY <1>2 DEF ReleaseLookup
  <2>7. StoredUntilDelivered' BY <1>2 DEF ReleaseLookup
  <2>. QED BY <2>1, <2>2, <2>3, <2>4, <2>5, <2>6, <2>7
<1>3. CASE ReleaseClaim(r)
  <2>1. OneReleaseAtATime' BY <1>3 DEF ReleaseClaim
  <2>2. ClaimedStatus' BY <1>3 DEF ReleaseClaim
  <2>3. AckedStatus'
    <3>1. CASE status[ItemOf[r]] = "held"
      <4>1. acked[ItemOf[r]] = {} /\ acked' = acked
        BY <1>3, <3>1 DEF ReleaseClaim
      <4>2. \A i \in Items : i # ItemOf[r] => status'[i] = status[i]
        BY <1>3, <3>1 DEF ReleaseClaim
      <4>3. \A s \in Releases : s # r => release'[s] = release[s]
        BY <1>3, <3>1 DEF ReleaseClaim
      <4>. QED BY <4>1, <4>2, <4>3
    <3>2. CASE status[ItemOf[r]] # "held"
      BY <1>3, <3>2 DEF ReleaseClaim
    <3>. QED BY <3>1, <3>2
  <2>4. PastSend' BY <1>3 DEF ReleaseClaim
  <2>5. MarkedDeliveredIsDelivered' BY <1>3 DEF ReleaseClaim
  <2>6. WrittenBeforeRecorded' BY <1>3 DEF ReleaseClaim
  <2>7. StoredUntilDelivered' BY <1>3 DEF ReleaseClaim
  <2>. QED BY <2>1, <2>2, <2>3, <2>4, <2>5, <2>6, <2>7
<1>4. CASE ReleaseRead(r)
  <2>1. OneReleaseAtATime'
    <3>1. \A s \in Releases, i \in Items : Claims(s, i)' => Claims(s, i)
      BY <1>4 DEF ReleaseRead
    <3>. QED BY <3>1
  <2>2. ClaimedStatus' BY <1>4 DEF ReleaseRead
  <2>3. AckedStatus' BY <1>4 DEF ReleaseRead
  <2>4. PastSend' BY <1>4 DEF ReleaseRead
  <2>5. MarkedDeliveredIsDelivered' BY <1>4 DEF ReleaseRead
  <2>6. WrittenBeforeRecorded' BY <1>4 DEF ReleaseRead
  <2>7. StoredUntilDelivered' BY <1>4 DEF ReleaseRead
  <2>. QED BY <2>1, <2>2, <2>3, <2>4, <2>5, <2>6, <2>7
<1>5. CASE ReleaseSend(r)
  <2>1. OneReleaseAtATime'
    <3>1. \A s \in Releases, i \in Items : Claims(s, i)' => Claims(s, i)
      BY <1>5 DEF ReleaseSend
    <3>. QED BY <3>1
  <2>2. ClaimedStatus' BY <1>5 DEF ReleaseSend
  <2>3. AckedStatus' BY <1>5 DEF ReleaseSend
  <2>4. PastSend'
    <3>1. \A i \in Items : acked[i] # {} => acked'[i] # {}
      BY <1>5 DEF ReleaseSend
    <3>2. release'[r] = "settle" => acked'[ItemOf[r]] # {}
      <4>1. CASE acked' = [acked EXCEPT ![ItemOf[r]] = @ \cup {r}]
        <5>1. acked'[ItemOf[r]] = acked[ItemOf[r]] \cup {r}
          BY <4>1
        <5>. QED BY <5>1
      <4>2. CASE Goto(r, "unclaim") BY <4>2
      <4>. QED BY <1>5, <4>1, <4>2 DEF ReleaseSend
    <3>3. release'[r] \in {"settle", "unclaim"} /\ \A s \in Releases : s # r => release'[s] = release[s]
      BY <1>5 DEF ReleaseSend
    <3>. QED BY <3>1, <3>2, <3>3
  <2>5. MarkedDeliveredIsDelivered' BY <1>5 DEF ReleaseSend
  <2>6. WrittenBeforeRecorded' BY <1>5 DEF ReleaseSend
  <2>7. StoredUntilDelivered' BY <1>5 DEF ReleaseSend
  <2>. QED BY <2>1, <2>2, <2>3, <2>4, <2>5, <2>6, <2>7
<1>6. CASE ReleaseEnd(r)
  <2>1. OneReleaseAtATime'
    <3>1. \A s \in Releases, i \in Items : Claims(s, i)' => Claims(s, i)
      BY <1>6 DEF ReleaseEnd
    <3>. QED BY <3>1
  <2>2. ClaimedStatus' BY <1>6 DEF ReleaseEnd
  <2>3. AckedStatus' BY <1>6 DEF ReleaseEnd
  <2>4. PastSend'
    <3>1. acked' = acked /\ \A s \in Releases : s # r => release'[s] = release[s]
      BY <1>6 DEF ReleaseEnd
    <3>2. release'[r] = "done" \/ (release[r] = "settle" /\ release'[r] = "correct")
      BY <1>6 DEF ReleaseEnd
    <3>. QED BY <3>1, <3>2
  <2>5. MarkedDeliveredIsDelivered' BY <1>6 DEF ReleaseEnd
  <2>6. WrittenBeforeRecorded' BY <1>6 DEF ReleaseEnd
  <2>7. StoredUntilDelivered' BY <1>6 DEF ReleaseEnd
  <2>. QED BY <2>1, <2>2, <2>3, <2>4, <2>5, <2>6, <2>7
<1>7. CASE ReleaseCorrect(r)
  <2>1. OneReleaseAtATime' BY <1>7 DEF ReleaseCorrect
  <2>2. ClaimedStatus' BY <1>7 DEF ReleaseCorrect
  <2>3. AckedStatus' BY <1>7 DEF ReleaseCorrect
  <2>4. PastSend' BY <1>7 DEF ReleaseCorrect
  <2>5. MarkedDeliveredIsDelivered' BY <1>7 DEF ReleaseCorrect
  <2>6. WrittenBeforeRecorded' BY <1>7 DEF ReleaseCorrect
  <2>7. StoredUntilDelivered' BY <1>7 DEF ReleaseCorrect
  <2>. QED BY <2>1, <2>2, <2>3, <2>4, <2>5, <2>6, <2>7
<1>8. CASE ReleaseDrop(r)
  <2>1. OneReleaseAtATime' BY <1>8 DEF ReleaseDrop
  <2>2. ClaimedStatus' BY <1>8 DEF ReleaseDrop
  <2>3. AckedStatus' BY <1>8 DEF ReleaseDrop
  <2>4. PastSend'
    <3>1. acked[ItemOf[r]] # {} /\ acked' = acked
      BY <1>8 DEF ReleaseDrop
    <3>2. \A s \in Releases : s # r => release'[s] = release[s]
      BY <1>8 DEF ReleaseDrop
    <3>. QED BY <3>1, <3>2
  <2>5. MarkedDeliveredIsDelivered' BY <1>8 DEF ReleaseDrop
  <2>6. WrittenBeforeRecorded' BY <1>8 DEF ReleaseDrop
  <2>7. StoredUntilDelivered' BY <1>8 DEF ReleaseDrop
  <2>. QED BY <2>1, <2>2, <2>3, <2>4, <2>5, <2>6, <2>7
<1>9. CASE ReleaseForget(r) BY <1>9 DEF ReleaseForget
<1>10. CASE FindRule(r) BY <1>10 DEF FindRule
<1>11. CASE AddRule(r)
  <2>1. OneReleaseAtATime' BY <1>11 DEF AddRule
  <2>2. ClaimedStatus' BY <1>11 DEF AddRule
  <2>3. AckedStatus' BY <1>11 DEF AddRule
  <2>4. PastSend' BY <1>11 DEF AddRule
  <2>5. MarkedDeliveredIsDelivered' BY <1>11 DEF AddRule
  <2>6. WrittenBeforeRecorded' BY <1>11 DEF AddRule
  <2>7. StoredUntilDelivered' BY <1>11 DEF AddRule
  <2>. QED BY <2>1, <2>2, <2>3, <2>4, <2>5, <2>6, <2>7
<1>12. CASE ReleaseCrash(r) BY <1>12 DEF ReleaseCrash
<1>. QED
  BY <1>1, <1>2, <1>3, <1>4, <1>5, <1>6, <1>7, <1>8, <1>9, <1>10, <1>11, <1>12
  DEF Release

LEMMA DeleteInv ==
    ASSUME TypeOK, CustodyInv, NEW e \in Deletes,
           Delete(e) \/ DeleteCrash(e), UNCHANGED <<upload, release, purge, rebuild>>
    PROVE  CustodyInv'
<1>. USE ItemOfType, BytesOfType
     DEF TypeOK, CustodyInv, OneReleaseAtATime, ClaimedStatus, AckedStatus, PastSend,
          MarkedDeliveredIsDelivered, WrittenBeforeRecorded, StoredUntilDelivered,
          Claims, stores, row, outcome, requests,
          UploadGoto, DeleteGoto
<1>1. CASE DeleteLookup(e) BY <1>1 DEF DeleteLookup
<1>2. CASE DeleteObject(e)
  <2>1. OneReleaseAtATime' BY <1>2 DEF DeleteObject, Discard
  <2>2. ClaimedStatus' BY <1>2 DEF DeleteObject, Discard
  <2>3. AckedStatus' BY <1>2 DEF DeleteObject, Discard
  <2>4. PastSend' BY <1>2 DEF DeleteObject, Discard
  <2>5. MarkedDeliveredIsDelivered' BY <1>2 DEF DeleteObject, Discard
  <2>6. WrittenBeforeRecorded' BY <1>2 DEF DeleteObject, Discard
  <2>7. StoredUntilDelivered' BY <1>2 DEF DeleteObject, Discard
  <2>. QED BY <2>1, <2>2, <2>3, <2>4, <2>5, <2>6, <2>7
<1>3. CASE DeleteScrub(e)
  <2>1. OneReleaseAtATime' BY <1>3 DEF DeleteScrub, Scrub
  <2>2. ClaimedStatus' BY <1>3 DEF DeleteScrub, Scrub
  <2>3. AckedStatus' BY <1>3 DEF DeleteScrub, Scrub
  <2>4. PastSend' BY <1>3 DEF DeleteScrub, Scrub
  <2>5. MarkedDeliveredIsDelivered' BY <1>3 DEF DeleteScrub, Scrub
  <2>6. WrittenBeforeRecorded' BY <1>3 DEF DeleteScrub, Scrub
  <2>7. StoredUntilDelivered' BY <1>3 DEF DeleteScrub, Scrub
  <2>. QED BY <2>1, <2>2, <2>3, <2>4, <2>5, <2>6, <2>7
<1>4. CASE DeleteCrash(e) BY <1>4 DEF DeleteCrash
<1>. QED BY <1>1, <1>2, <1>3, <1>4 DEF Delete

LEMMA PurgeInv ==
    ASSUME TypeOK, CustodyInv, NEW p \in Purges,
           PurgeStep(p)
    PROVE  CustodyInv'
<1>. USE ItemOfType, BytesOfType
     DEF TypeOK, CustodyInv, OneReleaseAtATime, ClaimedStatus, AckedStatus, PastSend,
          MarkedDeliveredIsDelivered, WrittenBeforeRecorded, StoredUntilDelivered,
          Claims, stores, row, outcome, requests,
          UploadGoto, DeleteGoto
<1>0. UNCHANGED <<upload, release, delete, rebuild>> BY DEF PurgeStep
<1>. USE <1>0
<1>1. CASE PurgeSelect(p) BY <1>1 DEF PurgeSelect
<1>2. ASSUME NEW i \in Items, PurgeObject(p, i) PROVE CustodyInv'
  <2>1. OneReleaseAtATime' BY <1>2 DEF PurgeObject, Discard
  <2>2. ClaimedStatus' BY <1>2 DEF PurgeObject, Discard
  <2>3. AckedStatus' BY <1>2 DEF PurgeObject, Discard
  <2>4. PastSend' BY <1>2 DEF PurgeObject, Discard
  <2>5. MarkedDeliveredIsDelivered' BY <1>2 DEF PurgeObject, Discard
  <2>6. WrittenBeforeRecorded'
    <3>1. CASE i \in purge[p].stored
      <4>1. discarded'[i] /\ upload' = upload /\ acked' = acked
        BY <1>2, <3>1 DEF PurgeObject, Discard
      <4>2. \A j \in Items : j # i => object'[j] = object[j] /\ discarded'[j] = discarded[j]
        BY <1>2, <3>1 DEF PurgeObject, Discard
      <4>. QED BY <4>1, <4>2
    <3>2. CASE i \notin purge[p].stored BY <1>2, <3>2 DEF PurgeObject
    <3>. QED BY <3>1, <3>2
  <2>7. StoredUntilDelivered' BY <1>2 DEF PurgeObject, Discard
  <2>. QED BY <2>1, <2>2, <2>3, <2>4, <2>5, <2>6, <2>7
<1>3. ASSUME NEW i \in Items, PurgeScrub(p, i) PROVE CustodyInv'
  <2>1. OneReleaseAtATime' BY <1>3 DEF PurgeScrub, Scrub
  <2>2. ClaimedStatus' BY <1>3 DEF PurgeScrub, Scrub
  <2>3. AckedStatus' BY <1>3 DEF PurgeScrub, Scrub
  <2>4. PastSend' BY <1>3 DEF PurgeScrub, Scrub
  <2>5. MarkedDeliveredIsDelivered' BY <1>3 DEF PurgeScrub, Scrub
  <2>6. WrittenBeforeRecorded' BY <1>3 DEF PurgeScrub, Scrub
  <2>7. StoredUntilDelivered' BY <1>3 DEF PurgeScrub, Scrub
  <2>. QED BY <2>1, <2>2, <2>3, <2>4, <2>5, <2>6, <2>7
<1>4. ASSUME NEW i \in Items, PurgeSkip(p, i) PROVE CustodyInv'
  BY <1>4 DEF PurgeSkip
<1>5. CASE PurgeCrash(p) BY <1>5 DEF PurgeCrash
<1>. QED BY <1>1, <1>2, <1>3, <1>4, <1>5 DEF PurgeStep

LEMMA ItemInv ==
    ASSUME TypeOK, CustodyInv, NEW i \in Items,
           Hold(i) \/ Expire(i) \/ LifecycleExpire(i), UNCHANGED requests
    PROVE  CustodyInv'
<1>. USE ItemOfType, BytesOfType
     DEF TypeOK, CustodyInv, OneReleaseAtATime, ClaimedStatus, AckedStatus, PastSend,
          MarkedDeliveredIsDelivered, WrittenBeforeRecorded, StoredUntilDelivered,
          Claims, stores, row, outcome, requests,
          UploadGoto, DeleteGoto
<1>1. CASE Hold(i) BY <1>1 DEF Hold
<1>2. CASE Expire(i) BY <1>2 DEF Expire
<1>3. CASE LifecycleExpire(i) BY <1>3 DEF LifecycleExpire, Discard
<1>. QED BY <1>1, <1>2, <1>3

LEMMA RebuildInv ==
    ASSUME TypeOK, CustodyInv, Rebuild
    PROVE  CustodyInv'
<1>. USE ItemOfType, BytesOfType
     DEF TypeOK, CustodyInv, OneReleaseAtATime, ClaimedStatus, AckedStatus, PastSend,
          MarkedDeliveredIsDelivered, WrittenBeforeRecorded, StoredUntilDelivered,
          Claims, stores, row, outcome, requests,
          UploadGoto, DeleteGoto
<1>0. UNCHANGED <<upload, release, delete, purge>> BY DEF Rebuild
<1>. USE <1>0
<1>1. CASE RebuildSelect BY <1>1 DEF RebuildSelect
<1>2. ASSUME NEW i \in Items, RebuildRead(i) PROVE CustodyInv'
  BY <1>2 DEF RebuildRead
<1>3. ASSUME NEW i \in Items, RebuildWrite(i) PROVE CustodyInv'
  BY <1>3 DEF RebuildWrite
<1>. QED BY <1>1, <1>2, <1>3 DEF Rebuild

LEMMA InvStep == TypeOK /\ CustodyInv /\ [Next]_vars => CustodyInv'
<1>. SUFFICES ASSUME TypeOK, CustodyInv, [Next]_vars PROVE CustodyInv'
  OBVIOUS
<1>1. CASE UNCHANGED vars
  BY <1>1 DEF vars, CustodyInv, OneReleaseAtATime, ClaimedStatus, AckedStatus, PastSend,
          MarkedDeliveredIsDelivered, WrittenBeforeRecorded, StoredUntilDelivered,
          Claims, stores, row, outcome, requests,
          UploadGoto, DeleteGoto
<1>2. ASSUME NEW i \in Items, Hold(i) \/ Expire(i) \/ LifecycleExpire(i),
             UNCHANGED requests
      PROVE  CustodyInv'
  BY <1>2, ItemInv
<1>3. ASSUME NEW d \in Deliveries, Upload(d) \/ UploadCrash(d),
             UNCHANGED <<release, delete, purge, rebuild>>
      PROVE  CustodyInv'
  BY <1>3, UploadInv
<1>4. ASSUME NEW r \in Releases, Release(r) \/ ReleaseCrash(r),
             UNCHANGED <<upload, delete, purge, rebuild>>
      PROVE  CustodyInv'
  BY <1>4, ReleaseInv
<1>5. ASSUME NEW e \in Deletes, Delete(e) \/ DeleteCrash(e),
             UNCHANGED <<upload, release, purge, rebuild>>
      PROVE  CustodyInv'
  BY <1>5, DeleteInv
<1>6. ASSUME NEW p \in Purges, PurgeStep(p)
      PROVE  CustodyInv'
  BY <1>6, PurgeInv
<1>7. CASE Rebuild BY <1>7, RebuildInv
<1>8. CASE CustodyNext
  <2>1. CASE Crash BY <2>1, <1>4, <1>5 DEF Crash
  <2>2. ASSUME NEW r \in Releases, Release(r) PROVE CustodyInv'
    BY <2>2, <1>4 DEF Release
  <2>3. ASSUME NEW e \in Deletes, Delete(e) PROVE CustodyInv'
    BY <2>3, <1>5 DEF Delete
  <2>. QED BY <1>8, <2>1, <2>2, <2>3, <1>2, <1>6, <1>7 DEF CustodyNext
<1>9. CASE \E d \in Deliveries : Upload(d)
  BY <1>9, <1>3 DEF Upload
<1>. QED BY <1>1, <1>2, <1>3, <1>8, <1>9 DEF Next

\* The inductive invariant holds of every instance.
THEOREM CustodyInvariant == Spec => []CustodyInv
<1>1. Init => TypeOK /\ CustodyInv BY InitType, InitInv
<1>2. (TypeOK /\ CustodyInv) /\ [Next]_vars => (TypeOK /\ CustodyInv)'
  BY TypeStep, InvStep
<1>. QED BY <1>1, <1>2, PTL DEF Spec

\* No two release calls hold the claim of one message.
THEOREM OneRelease == Spec => []OneReleaseAtATime
BY CustodyInvariant, PTL DEF CustodyInv

\* What is marked delivered was acknowledged by Cloudflare.
THEOREM MarkedDelivered == Spec => []MarkedDeliveredIsDelivered
BY CustodyInvariant, PTL DEF CustodyInv

\* A raw copy the row points to is there until delivered or given up.
THEOREM StoredUntilDelivery == Spec => []StoredUntilDelivered
BY CustodyInvariant, PTL DEF CustodyInv

-----------------------------------------------------------------------------
(* The action properties.                                                  *)

\* After the acknowledgement no step sends the message again or holds it
\* again.
THEOREM AcknowledgedFinal == Spec => AcknowledgedIsFinal
<1>1. ASSUME TypeOK, CustodyInv, [Next]_vars, NEW i \in Items, acked[i] # {}
      PROVE  delivered'[i] = delivered[i] /\ acked'[i] = acked[i]
  <2>. USE <1>1 DEF stores, row, outcome
  <2>1. CASE \E r \in Releases : ReleaseSend(r)
    <3>1. PICK r \in Releases : ReleaseSend(r) BY <2>1
    <3>2. ItemOf[r] # i
      BY <3>1 DEF ReleaseSend, CustodyInv, AckedStatus
    <3>. QED BY <3>1, <3>2 DEF ReleaseSend, TypeOK
  <2>2. CASE ~ \E r \in Releases : ReleaseSend(r)
    <3>1. delivered' = delivered /\ acked' = acked
      BY <2>2 DEF Next, CustodyNext, vars, Hold, Expire, LifecycleExpire, Discard, Scrub,
         Upload, UploadCheck, UploadWrite, UploadRecord, UploadPreview, UploadCrash,
         Release, WhitelistPrecheck, ReleaseLookup, ReleaseClaim, ReleaseRead,
         ReleaseEnd, ReleaseCorrect, ReleaseDrop,
         ReleaseForget, FindRule, AddRule, ReleaseCrash, Crash,
         Delete, DeleteLookup, DeleteObject, DeleteScrub, DeleteCrash,
         PurgeStep, PurgeSelect, PurgeObject, PurgeScrub, PurgeSkip, PurgeCrash,
         Rebuild, RebuildSelect, RebuildRead, RebuildWrite
    <3>. QED BY <3>1
  <2>. QED BY <2>1, <2>2
<1>2. ASSUME TypeOK, CustodyInv, CustodyInv', [Next]_vars, NEW i \in Items, acked[i] # {}
      PROVE  status'[i] # "held"
  BY <1>1, <1>2 DEF CustodyInv, AckedStatus
<1>3. TypeOK /\ CustodyInv /\ CustodyInv' /\ [Next]_vars =>
        [\A i \in Items : acked[i] # {} =>
            /\ delivered'[i] = delivered[i]
            /\ acked'[i] = acked[i]
            /\ status'[i] # "held"]_vars
  BY <1>1, <1>2
<1>. QED BY <1>3, TypeCorrect, CustodyInvariant, PTL DEF Spec, AcknowledgedIsFinal

\* The row stays deleted and gets nothing back in this step.
KeptDeleted(i) ==
    /\ status'[i] = "deleted"
    /\ raw'[i] \in {raw[i], NoBytes}
    /\ preview'[i] => preview[i]

LEMMA SettledDeletionStep ==
    ASSUME TypeOK, [Next]_vars, NEW i \in Items, status[i] = "deleted",
           \A r \in Releases : ~Claims(r, i),
           \A d \in Deliveries : ~Uploading(d, i)
    PROVE  KeptDeleted(i)
<1>. USE ItemOfType DEF stores, row, TypeOK, KeptDeleted
<1>1. CASE UNCHANGED row BY <1>1
<1>2. ASSUME NEW j \in Items, Hold(j) PROVE KeptDeleted(i)
  BY <1>2 DEF Hold
<1>3. ASSUME NEW j \in Items, Expire(j) PROVE KeptDeleted(i)
  BY <1>3 DEF Expire
<1>4. ASSUME NEW d \in Deliveries, UploadRecord(d) \/ UploadPreview(d) PROVE KeptDeleted(i)
  <2>1. ItemOf[d] # i
    BY <1>4 DEF UploadRecord, UploadPreview, Uploading
  <2>. QED BY <1>4, <2>1 DEF UploadRecord, UploadPreview
<1>5. ASSUME NEW r \in Releases, ReleaseClaim(r) PROVE KeptDeleted(i)
  BY <1>5 DEF ReleaseClaim
<1>6. ASSUME NEW r \in Releases, ReleaseEnd(r) PROVE KeptDeleted(i)
  <2>1. ItemOf[r] # i
    BY <1>6 DEF ReleaseEnd, Claims
  <2>. QED BY <1>6, <2>1 DEF ReleaseEnd
<1>7. ASSUME NEW r \in Releases, ReleaseForget(r) PROVE KeptDeleted(i)
  BY <1>7 DEF ReleaseForget
<1>8. ASSUME NEW j \in Items, Scrub(j) PROVE KeptDeleted(i)
  BY <1>8 DEF Scrub
<1>9. ASSUME NEW j \in Items, RebuildWrite(j) PROVE KeptDeleted(i)
  BY <1>9 DEF RebuildWrite
<1>10. CASE \E j \in Items : LifecycleExpire(j)
  BY <1>10, <1>1 DEF LifecycleExpire, Discard
<1>11. ASSUME NEW d \in Deliveries, Upload(d) \/ UploadCrash(d) PROVE KeptDeleted(i)
  BY <1>11, <1>1, <1>4 DEF Upload, UploadCheck, UploadWrite, UploadCrash
<1>12. ASSUME NEW r \in Releases, Release(r) \/ ReleaseCrash(r) PROVE KeptDeleted(i)
  BY <1>12, <1>1, <1>5, <1>6, <1>7
  DEF Release, WhitelistPrecheck, ReleaseLookup, ReleaseRead, ReleaseSend,
      ReleaseCorrect, ReleaseDrop, FindRule, AddRule, ReleaseCrash
<1>13. ASSUME NEW e \in Deletes, Delete(e) \/ DeleteCrash(e) PROVE KeptDeleted(i)
  BY <1>13, <1>1, <1>8
  DEF Delete, DeleteLookup, DeleteObject, Discard, DeleteScrub, DeleteCrash
<1>14. ASSUME NEW p \in Purges, PurgeStep(p) PROVE KeptDeleted(i)
  <2>1. ASSUME NEW j \in Items, PurgeScrub(p, j) PROVE KeptDeleted(i)
    BY <2>1, <1>1, <1>8 DEF PurgeScrub
  <2>2. ASSUME NEW j \in Items, PurgeObject(p, j) \/ PurgeSkip(p, j) PROVE KeptDeleted(i)
    BY <2>2, <1>1 DEF PurgeObject, PurgeSkip, Discard
  <2>3. CASE PurgeSelect(p) \/ PurgeCrash(p)
    BY <2>3, <1>1 DEF PurgeSelect, PurgeCrash
  <2>. QED BY <1>14, <2>1, <2>2, <2>3 DEF PurgeStep
<1>15. CASE Rebuild
  BY <1>15, <1>1, <1>9 DEF Rebuild, RebuildSelect, RebuildRead
<1>. HIDE DEF stores, row, TypeOK, KeptDeleted
<1>16. CASE UNCHANGED vars BY <1>16, <1>1 DEF vars, stores
<1>17. CASE Crash BY <1>17, <1>12, <1>13 DEF Crash
<1>18. CASE CustodyNext
  BY <1>18, <1>3, <1>10, <1>12, <1>13, <1>14, <1>15, <1>17 DEF CustodyNext
<1>19. CASE Next
  BY <1>19, <1>2, <1>11, <1>18 DEF Next
<1>. QED BY <1>16, <1>19

\* A deletion that no older release or upload can overwrite is final.
THEOREM SettledDeletionFinal == Spec => SettledDeletionIsFinal
<1>1. TypeOK /\ [Next]_vars =>
        [\A i \in Items :
            /\ status[i] = "deleted"
            /\ \A r \in Releases : ~Claims(r, i)
            /\ \A d \in Deliveries : ~Uploading(d, i)
            => /\ status'[i] = "deleted"
               /\ raw'[i] \in {raw[i], NoBytes}
               /\ preview'[i] => preview[i]]_vars
  BY SettledDeletionStep DEF KeptDeleted
<1>. QED BY <1>1, TypeCorrect, PTL DEF Spec, SettledDeletionIsFinal
=============================================================================
