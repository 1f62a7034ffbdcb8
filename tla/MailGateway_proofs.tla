------------------------- MODULE MailGateway_proofs -------------------------
(***************************************************************************)
(* The mail path for every set of messages, deliveries and requests: what  *)
(* custody promises still holds when scans and Workers drive it, the       *)
(* customer is alerted once, what was held stays suspect, and the path as  *)
(* a whole does what MessageFate says; and for every set of reports and    *)
(* records, a report the Worker has swallowed is stored.                   *)
(***************************************************************************)
EXTENDS ReportIngestion, QuarantineCustody_proofs

USE RequestsAssumption, BytesAssumption, CrashesAssumption, KindsAssumption DEF Requests

-----------------------------------------------------------------------------
(* The inductive invariant.                                                *)

Suspect == {"phishing", "quarantine"}

\* The copy of the message is there, or it was delivered or given up: once so,
\* always so.
Accounted(i) == object[i] # NoBytes \/ acked[i] # {} \/ discarded[i]

\* Who has seen a copy relies on that, however long ago it was.
SeenIsAccounted ==
    /\ \A d \in Deliveries : upload[d] \in {"preview", "stored"} => Accounted(ItemOf[d])
    /\ \A e \in Deletes : delete[e] = "remove" => Accounted(ItemOf[e])
    /\ \A p \in Purges : \A i \in purge[p].stored : Accounted(i)
    /\ \A r \in Releases : release[r] = "send" => Accounted(ItemOf[r])

\* What an upload or a deletion has found stays a row.
RequestHasRow ==
    /\ \A d \in Deliveries : upload[d] \notin {"check", "failed"} => status[ItemOf[d]] # "absent"
    /\ \A e \in Deletes : delete[e] \in {"remove", "scrub"} => status[ItemOf[e]] # "absent"

\* Nobody asked for the deletion of the item.
Wanted(i) == \A e \in Deletes : ItemOf[e] = i => delete[e] = "lookup"

\* The purge deletes a row only while no release holds its claim, so that no
\* release can hold the item again.
PurgedStaysPurged ==
    \A i \in Items : Wanted(i) /\ status[i] = "deleted" => \A r \in Releases : ~Claims(r, i)

StoredIsRecorded ==
    \A d \in Deliveries :
        LET i == ItemOf[d] IN
        /\ upload[d] \in {"preview", "stored"} /\ Wanted(i)
        /\ status[i] \in {"held", "releasing"} /\ acked[i] = {} /\ ~discarded[i]
        => raw[i] # NoBytes

CopiesInv ==
    TypeOK /\ CustodyInv /\ SeenIsAccounted /\ RequestHasRow /\ PurgedStaysPurged /\ StoredIsRecorded

\* A delivery that was not scanned yet has seen and decided nothing.
NotScanned ==
    \A d \in Deliveries :
        worker[d] \in {"arrived", "gate"} =>
            scan[d] = "idle" /\ seen[d] = Unread /\ verdict[d] = "none" /\ ~known[d]

KeptIsStored == \A d \in Deliveries : worker[d] = "kept" => upload[d] = "stored"

\* The message that was known as the scan began is known to the lookup that
\* finds it, in whichever order the lookups ran.
KnownIsSeen ==
    \A d \in Deliveries : known[d] =>
        LET i == ItemOf[d] IN
        \/ status[i] # "absent" /\ seen[d].item \in {"unread", "there"}
        \/ event[i] \in Suspect /\ seen[d].event \in {"unread"} \cup Suspect

\* One scan inserts the item, and it alone alerts.
AlertIsForItem ==
    \A d \in Deliveries :
        /\ scan[d] \in {"hold", "alert", "notify"} => verdict[d] \in Suspect
        /\ scan[d] = "alert" =>
             /\ status[ItemOf[d]] # "absent" /\ alerts[ItemOf[d]] = {}
             /\ \A e \in Deliveries : ItemOf[e] = ItemOf[d] /\ scan[e] = "alert" => e = d
        /\ scan[d] = "notify" => d \in alerts[ItemOf[d]]

ScansInv ==
    NotScanned /\ KeptIsStored /\ KnownIsSeen /\ HeldStaysSuspect /\ AlertIsForItem /\ AlertedOnce

GatewayInv == CopiesInv /\ GatewayTypeOK /\ ScansInv

\* While no process dies: of a held message some scan has journalled, or will.
HeldIsJournalled ==
    \A i \in Items : status[i] # "absent" =>
        \/ event[i] \in Suspect
        \/ \E d \in Deliveries :
              /\ ItemOf[d] = i /\ scan[d] \in {"alert", "notify", "journal"}
              /\ verdict[d] \in Suspect

-----------------------------------------------------------------------------
(* Custody: what a step does to the copies.                                *)

\* The steps of Next by the process that takes them.
LEMMA CustodySteps ==
    ASSUME [Next]_vars
    PROVE  \/ UNCHANGED vars
           \/ \E i \in Items : (Hold(i) \/ Expire(i) \/ LifecycleExpire(i)) /\ UNCHANGED requests
           \/ \E d \in Deliveries : (Upload(d) \/ UploadCrash(d))
                                    /\ UNCHANGED <<release, delete, purge, rebuild>>
           \/ \E r \in Releases : (Release(r) \/ ReleaseCrash(r))
                                  /\ UNCHANGED <<upload, delete, purge, rebuild>>
           \/ \E e \in Deletes : (Delete(e) \/ DeleteCrash(e))
                                 /\ UNCHANGED <<upload, release, purge, rebuild>>
           \/ \E p \in Purges : PurgeStep(p)
           \/ Rebuild
<1>1. ASSUME NEW d \in Deliveries, Upload(d)
      PROVE  UNCHANGED <<release, delete, purge, rebuild>>
  BY <1>1 DEF Upload
<1>2. ASSUME NEW r \in Releases, Release(r)
      PROVE  UNCHANGED <<upload, delete, purge, rebuild>>
  BY <1>2 DEF Release
<1>3. ASSUME NEW e \in Deletes, Delete(e)
      PROVE  UNCHANGED <<upload, release, purge, rebuild>>
  BY <1>3 DEF Delete
<1>. QED BY <1>1, <1>2, <1>3 DEF Next, CustodyNext, Crash

\* A copy is discarded, dropped after its delivery, or written; a delivery is
\* acknowledged; nothing else happens to it.
CopyStep ==
    \/ UNCHANGED <<object, acked, discarded>>
    \/ \E i \in Items :
         \/ /\ object' = [object EXCEPT ![i] = NoBytes]
            /\ discarded' = [discarded EXCEPT ![i] = TRUE]
            /\ UNCHANGED acked /\ Accounted(i)
         \/ /\ object' = [object EXCEPT ![i] = NoBytes]
            /\ UNCHANGED <<acked, discarded>> /\ acked[i] # {}
         \/ \E b \in Bytes : /\ object' = [object EXCEPT ![i] = b]
                              /\ UNCHANGED <<acked, discarded>>
         \/ \E r \in Releases : /\ acked' = [acked EXCEPT ![i] = @ \cup {r}]
                                 /\ UNCHANGED <<object, discarded>> /\ Accounted(i)

LEMMA CopySteps ==
    ASSUME TypeOK, CustodyInv, SeenIsAccounted, [Next]_vars
    PROVE  CopyStep
<1>. USE ItemOfType, BytesOfType DEF stores, row, outcome
<1>1. CASE UNCHANGED vars BY <1>1 DEF vars, CopyStep
<1>2. ASSUME NEW i \in Items, Hold(i) \/ Expire(i) PROVE CopyStep
  BY <1>2 DEF Hold, Expire, CopyStep
<1>3. ASSUME NEW i \in Items, LifecycleExpire(i) PROVE CopyStep
  BY <1>3 DEF LifecycleExpire, Discard, CopyStep, Accounted
<1>4. ASSUME NEW d \in Deliveries, Upload(d) \/ UploadCrash(d) PROVE CopyStep
  <2>1. CASE UploadWrite(d) BY <2>1 DEF UploadWrite, CopyStep
  <2>. QED
    BY <1>4, <2>1 DEF Upload, UploadCheck, UploadRecord, UploadPreview, UploadCrash, CopyStep
<1>5. ASSUME NEW r \in Releases, Release(r) \/ ReleaseCrash(r) PROVE CopyStep
  <2>1. CASE ReleaseSend(r)
    <3>1. Accounted(ItemOf[r]) BY <2>1 DEF ReleaseSend, SeenIsAccounted
    <3>2. /\ UNCHANGED <<object, discarded>>
          /\ UNCHANGED acked \/ acked' = [acked EXCEPT ![ItemOf[r]] = @ \cup {r}]
      BY <2>1 DEF ReleaseSend
    <3>. QED BY <3>1, <3>2 DEF CopyStep
  <2>2. CASE ReleaseDrop(r)
    <3>1. acked[ItemOf[r]] # {} BY <2>2 DEF ReleaseDrop, CustodyInv, PastSend
    <3>. QED BY <2>2, <3>1 DEF ReleaseDrop, CopyStep
  <2>. QED
    BY <1>5, <2>1, <2>2
    DEF Release, WhitelistPrecheck, ReleaseLookup, ReleaseClaim, ReleaseRead, ReleaseEnd,
        ReleaseCorrect, ReleaseForget, FindRule, AddRule, ReleaseCrash, CopyStep
<1>6. ASSUME NEW e \in Deletes, Delete(e) \/ DeleteCrash(e) PROVE CopyStep
  <2>1. CASE DeleteObject(e)
    BY <2>1 DEF DeleteObject, Discard, SeenIsAccounted, CopyStep
  <2>. QED
    BY <1>6, <2>1 DEF Delete, DeleteLookup, DeleteScrub, Scrub, DeleteCrash, CopyStep
<1>7. ASSUME NEW p \in Purges, PurgeStep(p) PROVE CopyStep
  <2>1. ASSUME NEW i \in Items, PurgeObject(p, i) PROVE CopyStep
    BY <2>1 DEF PurgeObject, Discard, SeenIsAccounted, CopyStep
  <2>2. ASSUME NEW i \in Items, PurgeSkip(p, i) \/ PurgeScrub(p, i) PROVE CopyStep
    BY <2>2 DEF PurgeSkip, PurgeScrub, Scrub, CopyStep
  <2>. QED BY <1>7, <2>1, <2>2 DEF PurgeStep, PurgeSelect, PurgeCrash, CopyStep
<1>8. CASE Rebuild
  BY <1>8 DEF Rebuild, RebuildSelect, RebuildRead, RebuildWrite, CopyStep
<1>. QED BY <1>1, <1>2, <1>3, <1>4, <1>5, <1>6, <1>7, <1>8, CustodySteps

LEMMA AccountedStays ==
    ASSUME TypeOK, CopyStep, NEW i \in Items, Accounted(i)
    PROVE  Accounted(i)'
<1>1. \A b \in Bytes : b # NoBytes BY DEF Bytes
<1>. QED BY <1>1 DEF CopyStep, Accounted, TypeOK

LEMMA EndingStays ==
    ASSUME TypeOK, CopyStep, NEW i \in Items
    PROVE  (acked[i] # {} => acked'[i] # {}) /\ (discarded[i] => discarded'[i])
<1>1. acked[i] # {} => acked'[i] # {} BY DEF CopyStep, TypeOK
<1>2. discarded[i] => discarded'[i]
  <2>1. CASE UNCHANGED discarded BY <2>1
  <2>2. ASSUME NEW j \in Items, discarded' = [discarded EXCEPT ![j] = TRUE]
        PROVE  discarded[i] => discarded'[i]
    BY <2>2 DEF TypeOK
  <2>. QED BY <2>1, <2>2 DEF CopyStep
<1>. QED BY <1>1, <1>2

\* A row that was inserted is there.
LEMMA RowStays ==
    ASSUME TypeOK, [Next]_vars, NEW i \in Items, status[i] # "absent"
    PROVE  status'[i] # "absent"
<1>. USE ItemOfType DEF stores, row, outcome, TypeOK
<1>1. CASE UNCHANGED status BY <1>1
<1>2. ASSUME NEW j \in Items, \/ Hold(j) \/ Scrub(j) PROVE status'[i] # "absent"
  BY <1>2 DEF Hold, Scrub
<1>3. ASSUME NEW j \in Items, LifecycleExpire(j) \/ Expire(j) PROVE UNCHANGED status
  BY <1>3 DEF LifecycleExpire, Discard, Expire
<1>4. ASSUME NEW d \in Deliveries, Upload(d) \/ UploadCrash(d) PROVE UNCHANGED status
  BY <1>4 DEF Upload, UploadCheck, UploadWrite, UploadRecord, UploadPreview, UploadCrash
<1>5. ASSUME NEW r \in Releases, Release(r) \/ ReleaseCrash(r) PROVE status'[i] # "absent"
  <2>1. CASE ReleaseClaim(r) BY <2>1 DEF ReleaseClaim
  <2>2. CASE ReleaseEnd(r) BY <2>2 DEF ReleaseEnd
  <2>. QED
    BY <1>1, <1>5, <2>1, <2>2
    DEF Release, WhitelistPrecheck, ReleaseLookup, ReleaseRead, ReleaseSend,
        ReleaseCorrect, ReleaseDrop, ReleaseForget, FindRule, AddRule, ReleaseCrash
<1>6. ASSUME NEW e \in Deletes, Delete(e) \/ DeleteCrash(e) PROVE status'[i] # "absent"
  BY <1>1, <1>2, <1>6 DEF Delete, DeleteLookup, DeleteObject, Discard, DeleteScrub, DeleteCrash
<1>7. ASSUME NEW p \in Purges, PurgeStep(p) PROVE status'[i] # "absent"
  BY <1>1, <1>2, <1>7
  DEF PurgeStep, PurgeSelect, PurgeObject, Discard, PurgeSkip, PurgeScrub, PurgeCrash
<1>8. CASE Rebuild
  BY <1>1, <1>8 DEF Rebuild, RebuildSelect, RebuildRead, RebuildWrite
<1>. QED
  BY <1>1, <1>2, <1>3, <1>4, <1>5, <1>6, <1>7, <1>8, CustodySteps DEF vars
LEMMA SeenStep ==
    ASSUME TypeOK, CustodyInv, SeenIsAccounted, [Next]_vars
    PROVE  SeenIsAccounted'
<1>. USE ItemOfType, BytesOfType DEF TypeOK, stores, row, outcome
<1>1. \A i \in Items : Accounted(i) => Accounted(i)' BY CopySteps, AccountedStays
<1>2. \A i \in Items : raw[i] # NoBytes => Accounted(i)
  BY DEF CustodyInv, StoredUntilDelivered, Accounted
<1>3. ASSUME NEW d \in Deliveries, upload'[d] \in {"preview", "stored"}
      PROVE  Accounted(ItemOf[d])'
  <2>1. CASE upload'[d] = upload[d] BY <1>1, <1>3, <2>1 DEF SeenIsAccounted
  <2>2. CASE upload'[d] # upload[d]
    <3>1. Upload(d) \/ UploadCrash(d)
      BY <2>2, CustodySteps
      DEF vars, requests, Upload, UploadCheck, UploadWrite, UploadRecord, UploadPreview,
          UploadCrash, UploadGoto, PurgeStep, Rebuild
    <3>2. CASE UploadCheck(d) BY <1>1, <1>2, <1>3, <3>2 DEF UploadCheck, UploadGoto
    <3>3. CASE UploadWrite(d) BY <1>3, <3>3 DEF UploadWrite, UploadGoto
    <3>4. CASE UploadRecord(d)
      <4>1. Accounted(ItemOf[d])
        BY <3>4 DEF UploadRecord, CustodyInv, WrittenBeforeRecorded, Accounted
      <4>. QED BY <1>1, <4>1
    <3>5. CASE UploadPreview(d) BY <1>1, <3>5 DEF UploadPreview, SeenIsAccounted
    <3>6. CASE UploadCrash(d) BY <1>3, <3>6 DEF UploadCrash, UploadGoto
    <3>. QED BY <3>1, <3>2, <3>3, <3>4, <3>5, <3>6 DEF Upload
  <2>. QED BY <2>1, <2>2
<1>4. ASSUME NEW e \in Deletes, delete'[e] = "remove" PROVE Accounted(ItemOf[e])'
  <2>1. CASE delete[e] = "remove" BY <1>1, <2>1 DEF SeenIsAccounted
  <2>2. CASE delete[e] # "remove"
    <3>1. raw[ItemOf[e]] # NoBytes
      BY <1>4, <2>2, CustodySteps
      DEF vars, requests, Delete, DeleteLookup, DeleteObject, DeleteScrub, DeleteCrash, DeleteGoto,
          PurgeStep, Rebuild
    <3>. QED BY <1>1, <1>2, <3>1
  <2>. QED BY <2>1, <2>2
<1>5. ASSUME NEW p \in Purges, NEW i \in purge'[p].stored PROVE Accounted(i)'
  <2>1. CASE i \in purge[p].stored BY <1>1, <2>1 DEF SeenIsAccounted
  <2>2. CASE i \notin purge[p].stored
    <3>1. PICK q \in Purges : PurgeStep(q) /\ i \notin purge[p].stored
      BY <1>5, <2>2, CustodySteps DEF vars, requests, Rebuild
    <3>2. CASE PurgeSelect(q) BY <1>1, <1>2, <1>5, <2>2, <3>2 DEF PurgeSelect
    <3>3. CASE PurgeCrash(q) BY <1>5, <2>2, <3>3 DEF PurgeCrash, IdlePurge
    <3>4. ASSUME NEW j \in Items, PurgeObject(q, j) \/ PurgeSkip(q, j) \/ PurgeScrub(q, j)
          PROVE  purge'[p].stored = purge[p].stored
      <4>1. CASE PurgeObject(q, j) BY <4>1 DEF PurgeObject
      <4>2. CASE PurgeSkip(q, j)
        <5>1. purge' = [purge EXCEPT ![q] = [purge[q] EXCEPT !.todo = @ \ {j}]]
          BY <4>2 DEF PurgeSkip
        <5>. QED BY <5>1
      <4>3. CASE PurgeScrub(q, j)
        <5>1. purge' = [purge EXCEPT ![q] = [purge[q] EXCEPT !.current = {}]]
          BY <4>3 DEF PurgeScrub
        <5>. QED BY <5>1
      <4>. QED BY <3>4, <4>1, <4>2, <4>3
    <3>. QED BY <1>5, <2>2, <3>1, <3>2, <3>3, <3>4 DEF PurgeStep
  <2>. QED BY <2>1, <2>2
<1>6. ASSUME NEW r \in Releases, release'[r] = "send" PROVE Accounted(ItemOf[r])'
  <2>1. CASE release[r] = "send" BY <1>1, <2>1 DEF SeenIsAccounted
  <2>2. CASE release[r] # "send"
    <3>1. object[ItemOf[r]] # NoBytes
      BY <1>6, <2>2, CustodySteps
      DEF vars, requests, Release, WhitelistPrecheck, ReleaseLookup, ReleaseClaim, ReleaseRead,
          ReleaseSend, ReleaseEnd, ReleaseCorrect, ReleaseDrop, ReleaseForget, FindRule, AddRule,
          ReleaseCrash, Goto, Returned, PurgeStep, Rebuild
    <3>. QED BY <1>1, <3>1 DEF Accounted
  <2>. QED BY <2>1, <2>2
<1>. QED BY <1>3, <1>4, <1>5, <1>6 DEF SeenIsAccounted

LEMMA RequestRowStep ==
    ASSUME TypeOK, RequestHasRow, [Next]_vars
    PROVE  RequestHasRow'
<1>. USE ItemOfType DEF TypeOK, RequestHasRow
<1>1. ASSUME NEW d \in Deliveries, upload'[d] \notin {"check", "failed"}
      PROVE  status'[ItemOf[d]] # "absent"
  <2>1. CASE upload[d] \notin {"check", "failed"} BY <2>1, RowStays
  <2>2. CASE upload[d] \in {"check", "failed"}
    <3>1. status[ItemOf[d]] = "held"
      BY <1>1, <2>2, CustodySteps
      DEF vars, requests, Upload, UploadCheck, UploadWrite, UploadRecord, UploadPreview,
          UploadCrash, UploadGoto, PurgeStep, Rebuild
    <3>. QED BY <3>1, RowStays
  <2>. QED BY <2>1, <2>2
<1>2. ASSUME NEW e \in Deletes, delete'[e] \in {"remove", "scrub"}
      PROVE  status'[ItemOf[e]] # "absent"
  <2>1. status[ItemOf[e]] # "absent"
    BY <1>2, CustodySteps
    DEF vars, requests, Delete, DeleteLookup, DeleteObject, DeleteScrub, DeleteCrash, DeleteGoto,
        PurgeStep, Rebuild
  <2>. QED BY <2>1, RowStays
<1>. QED BY <1>1, <1>2

LEMMA WantedBefore ==
    ASSUME TypeOK, [Next]_vars, NEW i \in Items, Wanted(i)'
    PROVE  /\ Wanted(i)
           /\ \A e \in Deletes : ItemOf[e] = i => ~DeleteScrub(e)
<1>1. ASSUME NEW e \in Deletes, delete'[e] = "lookup" PROVE delete[e] = "lookup"
  BY <1>1, CustodySteps
  DEF TypeOK, vars, requests, Delete, DeleteLookup, DeleteObject, DeleteScrub, DeleteCrash,
      DeleteGoto, PurgeStep, Rebuild
<1>2. ASSUME NEW e \in Deletes, DeleteScrub(e) PROVE delete'[e] # "lookup"
  BY <1>2 DEF DeleteScrub, DeleteGoto, TypeOK
<1>. QED BY <1>1, <1>2 DEF Wanted

\* A deletion and a purge alone write 'deleted' and a release alone holds an
\* item again; only a deleted or a delivered item loses its URI.
LEMMA RowSteps ==
    ASSUME TypeOK, CustodyInv, [Next]_vars, NEW i \in Items
    PROVE  /\ status'[i] = "deleted" /\ status[i] # "deleted" =>
                \/ \E e \in Deletes : ItemOf[e] = i /\ DeleteScrub(e)
                \/ status[i] = "held" /\ UNCHANGED release
           /\ status'[i] \in {"held", "releasing"} /\ status[i] \notin {"absent", "held"} =>
                status[i] = "releasing" \/ \E r \in Releases : Claims(r, i)
           /\ raw'[i] = NoBytes /\ raw[i] # NoBytes =>
                status'[i] = "deleted" \/ acked[i] # {}
<1>. USE ItemOfType, BytesOfType DEF TypeOK, stores, row, outcome
<1>. DEFINE Goal == /\ status'[i] = "deleted" /\ status[i] # "deleted" =>
                        \/ \E e \in Deletes : ItemOf[e] = i /\ DeleteScrub(e)
                        \/ status[i] = "held" /\ UNCHANGED release
                    /\ status'[i] \in {"held", "releasing"} /\ status[i] \notin {"absent", "held"} =>
                        status[i] = "releasing" \/ \E r \in Releases : Claims(r, i)
                    /\ raw'[i] = NoBytes /\ raw[i] # NoBytes =>
                        status'[i] = "deleted" \/ acked[i] # {}
<1>1. CASE UNCHANGED <<status, raw>> BY <1>1
<1>2. ASSUME NEW j \in Items, Hold(j) \/ Expire(j) \/ LifecycleExpire(j) PROVE Goal
  BY <1>2 DEF Hold, Expire, LifecycleExpire, Discard
<1>3. ASSUME NEW d \in Deliveries, Upload(d) \/ UploadCrash(d) PROVE Goal
  <2>1. CASE UploadRecord(d) BY <2>1 DEF UploadRecord
  <2>. QED
    BY <1>1, <1>3, <2>1 DEF Upload, UploadCheck, UploadWrite, UploadPreview, UploadCrash
<1>4. ASSUME NEW r \in Releases, Release(r) \/ ReleaseCrash(r) PROVE Goal
  <2>1. CASE ReleaseClaim(r) BY <2>1 DEF ReleaseClaim
  <2>2. CASE ReleaseEnd(r) BY <2>2 DEF ReleaseEnd, Claims
  <2>3. CASE ReleaseForget(r) BY <2>3 DEF ReleaseForget, CustodyInv, PastSend
  <2>. QED
    BY <1>1, <1>4, <2>1, <2>2, <2>3
    DEF Release, WhitelistPrecheck, ReleaseLookup, ReleaseRead, ReleaseSend,
        ReleaseCorrect, ReleaseDrop, FindRule, AddRule, ReleaseCrash
<1>5. ASSUME NEW e \in Deletes, Delete(e) \/ DeleteCrash(e) PROVE Goal
  <2>1. CASE DeleteScrub(e) BY <2>1 DEF DeleteScrub, Scrub
  <2>. QED BY <1>1, <1>5, <2>1 DEF Delete, DeleteLookup, DeleteObject, Discard, DeleteCrash
<1>6. ASSUME NEW p \in Purges, PurgeStep(p) PROVE Goal
  <2>1. ASSUME NEW j \in Items, PurgeScrub(p, j) PROVE Goal
    <3>1. UNCHANGED release BY <1>6 DEF PurgeStep
    <3>. QED BY <1>1, <2>1, <3>1 DEF PurgeScrub, Scrub
  <2>2. ASSUME NEW j \in Items, PurgeObject(p, j) \/ PurgeSkip(p, j) PROVE Goal
    BY <1>1, <2>2 DEF PurgeObject, Discard, PurgeSkip
  <2>. QED BY <1>1, <1>6, <2>1, <2>2 DEF PurgeStep, PurgeSelect, PurgeCrash
<1>7. CASE Rebuild
  BY <1>1, <1>7 DEF Rebuild, RebuildSelect, RebuildRead, RebuildWrite
<1>. QED BY <1>1, <1>2, <1>3, <1>4, <1>5, <1>6, <1>7, CustodySteps DEF vars

LEMMA PurgedStep ==
    ASSUME TypeOK, CustodyInv, PurgedStaysPurged, [Next]_vars
    PROVE  PurgedStaysPurged'
<1>. SUFFICES ASSUME NEW i \in Items, Wanted(i)', status'[i] = "deleted",
                     NEW r \in Releases, Claims(r, i)'
              PROVE  FALSE
  BY DEF PurgedStaysPurged
<1>1. Wanted(i) /\ \A e \in Deletes : ItemOf[e] = i => ~DeleteScrub(e) BY WantedBefore
<1>2. CASE status[i] = "deleted"
  <2>1. ~Claims(r, i) BY <1>1, <1>2 DEF PurgedStaysPurged
  <2>. QED
    BY <1>2, <2>1, CustodySteps
    DEF TypeOK, vars, requests, Claims, Release, WhitelistPrecheck, ReleaseLookup, ReleaseClaim,
        ReleaseRead, ReleaseSend, ReleaseEnd, ReleaseCorrect, ReleaseDrop, ReleaseForget, FindRule,
        AddRule, ReleaseCrash, Goto, Returned, PurgeStep, Rebuild
<1>3. CASE status[i] # "deleted"
  <2>1. status[i] = "held" /\ UNCHANGED release BY <1>1, <1>3, RowSteps
  <2>2. Claims(r, i) BY <2>1 DEF Claims
  <2>. QED BY <2>1, <2>2 DEF CustodyInv, ClaimedStatus
<1>. QED BY <1>2, <1>3

LEMMA StoredStep ==
    ASSUME CopiesInv, [Next]_vars
    PROVE  StoredIsRecorded'
<1>. USE ItemOfType DEF CopiesInv
<1>. SUFFICES ASSUME NEW d \in Deliveries, upload'[d] \in {"preview", "stored"},
                     Wanted(ItemOf[d])', status'[ItemOf[d]] \in {"held", "releasing"},
                     acked'[ItemOf[d]] = {}, ~discarded'[ItemOf[d]]
              PROVE  raw'[ItemOf[d]] # NoBytes
  BY DEF StoredIsRecorded
<1>. DEFINE i == ItemOf[d]
<1>1. Wanted(i) BY WantedBefore
<1>2. acked[i] = {} /\ ~discarded[i] BY CopySteps, EndingStays
<1>3. CASE upload'[d] = upload[d]
  <2>1. status[i] # "absent" BY <1>3 DEF RequestHasRow
  <2>2. status[i] \in {"held", "releasing"}
    BY <1>1, <2>1, RowSteps DEF PurgedStaysPurged, CustodyInv, ClaimedStatus
  <2>3. raw[i] # NoBytes BY <1>1, <1>2, <1>3, <2>2 DEF StoredIsRecorded
  <2>. QED BY <1>2, <2>3, RowSteps
<1>4. CASE upload'[d] # upload[d]
  <2>1. Upload(d) \/ UploadCrash(d)
    BY <1>4, CustodySteps
    DEF TypeOK, vars, requests, Upload, UploadCheck, UploadWrite, UploadRecord, UploadPreview,
        UploadCrash, UploadGoto, PurgeStep, Rebuild
  <2>. USE DEF TypeOK, stores, row, UploadGoto
  <2>2. CASE UploadCheck(d) BY <2>2 DEF UploadCheck
  <2>3. CASE UploadWrite(d) BY <2>3 DEF UploadWrite
  <2>4. CASE UploadRecord(d) BY <2>4 DEF UploadRecord
  <2>5. CASE UploadPreview(d)
    BY <1>1, <1>2, <2>5 DEF UploadPreview, StoredIsRecorded
  <2>6. CASE UploadCrash(d) BY <2>6 DEF UploadCrash
  <2>. QED BY <2>1, <2>2, <2>3, <2>4, <2>5, <2>6 DEF Upload
<1>. QED BY <1>3, <1>4

LEMMA CopiesStep == CopiesInv /\ [Next]_vars => CopiesInv'
BY TypeStep, InvStep, SeenStep, RequestRowStep, PurgedStep, StoredStep DEF CopiesInv

LEMMA CopiesInit == Init => CopiesInv
<1>. SUFFICES ASSUME Init PROVE CopiesInv OBVIOUS
<1>1. TypeOK /\ CustodyInv BY InitType, InitInv
<1>2. SeenIsAccounted /\ RequestHasRow /\ PurgedStaysPurged /\ StoredIsRecorded
  BY ItemOfType
  DEF Init, IdlePurge, SeenIsAccounted, RequestHasRow, PurgedStaysPurged, StoredIsRecorded
<1>. QED BY <1>1, <1>2 DEF CopiesInv
-----------------------------------------------------------------------------
(* The mail path.                                                          *)

ScanMore(d) == Scan(d) \/ ScanFail(d) \/ ScanCrash(d)

\* A step of custody that is no scan's.
CustodyAlone ==
    UNCHANGED vars \/ CustodyNext \/ \E d \in Deliveries : Upload(d) \/ UploadCrash(d)

\* A step of the mail path is a step of custody, or leaves it alone.
LEMMA GatewaySteps ==
    ASSUME [GatewayNext]_gatewayVars
    PROVE  /\ [Next]_vars
           /\ \/ UNCHANGED gateway /\ CustodyAlone
              \/ \E d \in Deliveries : Worker(d)
              \/ \E d \in Deliveries : ScanMore(d)
<1>1. CASE UNCHANGED gatewayVars BY <1>1 DEF gatewayVars, CustodyAlone
<1>2. CASE CustodyNext /\ UNCHANGED gateway BY <1>2 DEF Next, CustodyAlone
<1>3. ASSUME NEW d \in Deliveries, Worker(d) PROVE UNCHANGED vars BY <1>3 DEF Worker
<1>4. ASSUME NEW d \in Deliveries, ScanMore(d) PROVE [Next]_vars
  <2>1. CASE ScanHold(d) /\ Hold(ItemOf[d]) /\ UNCHANGED requests
    BY <2>1, ItemOfType DEF Next
  <2>2. CASE UNCHANGED vars BY <2>2
  <2>. QED
    BY <1>4, <2>1, <2>2
    DEF ScanMore, Scan, ScanLookItem, ScanLookEvent, ScanDecide, ScanHold, ScanAlert,
        ScanNotify, ScanJournal, ScanActivate, ScanFail, ScanCrash
<1>5. ASSUME NEW d \in Deliveries, Custody(d) PROVE [Next]_vars /\ UNCHANGED gateway /\ CustodyAlone
  BY <1>5 DEF Custody, Next, CustodyAlone
<1>6. ASSUME NEW d \in Deliveries,
             UploadCrash(d) /\ UNCHANGED <<release, delete, purge, rebuild, gateway>>
      PROVE  [Next]_vars /\ UNCHANGED gateway /\ CustodyAlone
  BY <1>6 DEF Next, CustodyAlone
<1>. QED BY <1>1, <1>2, <1>3, <1>4, <1>5, <1>6 DEF GatewayNext, ScanMore

\* Only a scan inserts a row.
LEMMA NoHold ==
    ASSUME TypeOK, CustodyInv, RequestHasRow, CustodyAlone,
           NEW i \in Items, status'[i] # "absent"
    PROVE  status[i] # "absent"
<1>. USE ItemOfType DEF stores, row, outcome, TypeOK
<1>1. CASE UNCHANGED status BY <1>1
<1>2. ASSUME NEW j \in Items, LifecycleExpire(j) \/ Expire(j) PROVE UNCHANGED status
  BY <1>2 DEF LifecycleExpire, Discard, Expire
<1>3. ASSUME NEW d \in Deliveries, Upload(d) \/ UploadCrash(d) PROVE UNCHANGED status
  BY <1>3 DEF Upload, UploadCheck, UploadWrite, UploadRecord, UploadPreview, UploadCrash
<1>4. ASSUME NEW r \in Releases, Release(r) \/ ReleaseCrash(r) PROVE status[i] # "absent"
  <2>1. CASE ReleaseClaim(r) BY <2>1 DEF ReleaseClaim
  <2>2. CASE ReleaseEnd(r)
    <3>1. status[ItemOf[r]] # "absent"
      BY <2>2 DEF ReleaseEnd, CustodyInv, ClaimedStatus, Claims
    <3>. QED BY <2>2, <3>1 DEF ReleaseEnd
  <2>. QED
    BY <1>1, <1>4, <2>1, <2>2
    DEF Release, WhitelistPrecheck, ReleaseLookup, ReleaseRead, ReleaseSend,
        ReleaseCorrect, ReleaseDrop, ReleaseForget, FindRule, AddRule, ReleaseCrash
<1>5. ASSUME NEW e \in Deletes, Delete(e) \/ DeleteCrash(e) PROVE status[i] # "absent"
  <2>1. CASE DeleteScrub(e) BY <2>1 DEF DeleteScrub, Scrub, RequestHasRow
  <2>. QED BY <1>1, <1>5, <2>1 DEF Delete, DeleteLookup, DeleteObject, Discard, DeleteCrash
<1>6. ASSUME NEW p \in Purges, PurgeStep(p) PROVE status[i] # "absent"
  BY <1>1, <1>6
  DEF PurgeStep, PurgeSelect, PurgeObject, Discard, PurgeSkip, PurgeScrub, Scrub, PurgeCrash
<1>7. CASE Rebuild BY <1>1, <1>7 DEF Rebuild, RebuildSelect, RebuildRead, RebuildWrite
<1>. QED
  BY <1>1, <1>2, <1>3, <1>4, <1>5, <1>6, <1>7
  DEF CustodyAlone, CustodyNext, Crash, vars

LEMMA WorkerTyped ==
    ASSUME GatewayTypeOK, NEW d \in Deliveries, Worker(d)
    PROVE  GatewayTypeOK'
<1>. USE ItemOfType DEF GatewayTypeOK, WorkerSteps, Final, WorkerGoto
<1>1. TypeOK' BY DEF Worker, TypeOK, vars, stores, requests, row, outcome
<1>2. CASE WorkerIngest(d) BY <1>1, <1>2 DEF WorkerIngest
<1>3. CASE WorkerAsk(d)
  <2>1. CASE d \in Platform BY <1>1, <1>3, <2>1 DEF WorkerAsk
  <2>2. CASE d \notin Platform
    <3>1. [seen[d] EXCEPT !.pending = pending] \in Lookups
      <4>1. seen[d] \in Lookups OBVIOUS
      <4>2. \A s \in Lookups : [s EXCEPT !.pending = TRUE] \in Lookups BY DEF Lookups
      <4>3. \A s \in Lookups : [s EXCEPT !.pending = FALSE] \in Lookups BY DEF Lookups
      <4>4. pending = TRUE \/ pending = FALSE OBVIOUS
      <4>. HIDE DEF Lookups
      <4>. QED BY <4>1, <4>2, <4>3, <4>4
    <3>2. seen' = [seen EXCEPT ![d] = [seen[d] EXCEPT !.pending = pending]]
      BY <1>3, <2>2 DEF WorkerAsk
    <3>. HIDE DEF Lookups
    <3>3. seen' \in [Deliveries -> Lookups] BY <3>1, <3>2
    <3>4. PICK b \in BOOLEAN : known' = [known EXCEPT ![d] = b] BY <1>3, <2>2 DEF WorkerAsk
    <3>5. known' \in [Deliveries -> BOOLEAN] BY <3>4
    <3>6. /\ worker' = [worker EXCEPT ![d] = "scanning"] /\ scan' = [scan EXCEPT ![d] = "look"]
          /\ UNCHANGED <<verdict, event, alerts, mailed, pending>>
      BY <1>3, <2>2 DEF WorkerAsk
    <3>7. worker' \in [Deliveries -> WorkerSteps] BY <3>6 DEF WorkerSteps
    <3>8. scan' \in [Deliveries -> ScanSteps] BY <3>6 DEF ScanSteps
    <3>. QED BY <1>1, <3>3, <3>5, <3>6, <3>7, <3>8
  <2>. QED BY <2>1, <2>2
<1>4. CASE WorkerAnswer(d) BY <1>1, <1>4 DEF WorkerAnswer
<1>5. CASE WorkerScanTimeout(d) BY <1>1, <1>5 DEF WorkerScanTimeout
<1>6. CASE WorkerStored(d) BY <1>1, <1>6 DEF WorkerStored
<1>. QED BY <1>2, <1>3, <1>4, <1>5, <1>6 DEF Worker

LEMMA ScanTyped ==
    ASSUME GatewayTypeOK, TypeOK', NEW d \in Deliveries, ScanMore(d)
    PROVE  GatewayTypeOK'
<1>. USE ItemOfType DEF GatewayTypeOK, ScanSteps, ScanGoto, Answer, Verdicts
<1>1. CASE ScanLookItem(d)
  <2>1. seen[d] \in Lookups OBVIOUS
  <2>2. [seen[d] EXCEPT !.item = IF status[ItemOf[d]] = "absent" THEN "none" ELSE "there"]
          \in Lookups
    BY <2>1 DEF Lookups
  <2>. HIDE DEF Lookups
  <2>3. seen' \in [Deliveries -> Lookups] BY <1>1, <2>2 DEF ScanLookItem
  <2>. QED BY <1>1, <2>3 DEF ScanLookItem
<1>2. CASE ScanLookEvent(d) BY <1>2 DEF ScanLookEvent, Lookups
<1>3. CASE ScanDecide(d)
  <2>1. seen[d].event # "unread" => seen[d].event \in Verdicts BY DEF Lookups
  <2>. QED BY <1>3, <2>1 DEF ScanDecide
<1>4. CASE ScanHold(d) BY <1>4 DEF ScanHold
<1>5. CASE ScanAlert(d)
  <2>1. alerts' \in [Items -> SUBSET Deliveries] BY <1>5 DEF ScanAlert
  <2>2. verdict' \in [Deliveries -> Verdicts] /\ scan' \in [Deliveries -> ScanSteps]
    BY <1>5 DEF ScanAlert
  <2>. QED BY <1>5, <2>1, <2>2 DEF ScanAlert
<1>6. CASE ScanNotify(d)
  <2>1. mailed' \in [Items -> SUBSET Deliveries] BY <1>6 DEF ScanNotify
  <2>. QED BY <1>6, <2>1 DEF ScanNotify
<1>7. CASE ScanJournal(d) BY <1>7 DEF ScanJournal
<1>8. CASE ScanActivate(d) BY <1>8 DEF ScanActivate
<1>9. CASE ScanFail(d) \/ ScanCrash(d) BY <1>9 DEF ScanFail, ScanCrash
<1>. QED
  BY <1>1, <1>2, <1>3, <1>4, <1>5, <1>6, <1>7, <1>8, <1>9 DEF ScanMore, Scan

LEMMA CustodyKeepsScans ==
    ASSUME CopiesInv, GatewayTypeOK, ScansInv, [Next]_vars, UNCHANGED gateway
    PROVE  ScansInv' /\ GatewayTypeOK'
<1>. USE ItemOfType DEF CopiesInv, ScansInv, gateway
<1>1. \A i \in Items : status[i] # "absent" => status'[i] # "absent" BY RowStays
<1>2. ASSUME NEW d \in Deliveries, upload[d] = "stored" PROVE upload'[d] = "stored"
  BY <1>2, CustodySteps
  DEF TypeOK, vars, requests, Upload, UploadCheck, UploadWrite, UploadRecord, UploadPreview,
      UploadCrash, UploadGoto, PurgeStep, Rebuild
<1>3. GatewayTypeOK' BY TypeStep DEF GatewayTypeOK
<1>4. NotScanned' BY DEF NotScanned
<1>5. KeptIsStored' BY <1>2 DEF KeptIsStored
<1>6. KnownIsSeen' BY <1>1 DEF KnownIsSeen
<1>7. HeldStaysSuspect' BY DEF HeldStaysSuspect
<1>8. AlertIsForItem' BY <1>1 DEF AlertIsForItem
<1>9. AlertedOnce' BY <1>1 DEF AlertedOnce
<1>. QED BY <1>3, <1>4, <1>5, <1>6, <1>7, <1>8, <1>9

LEMMA WorkerKeepsScans ==
    ASSUME GatewayTypeOK, ScansInv, NEW d \in Deliveries, Worker(d)
    PROVE  ScansInv'
<1>. USE ItemOfType DEF ScansInv, GatewayTypeOK, WorkerGoto
<1>1. UNCHANGED <<status, upload>>
  BY DEF Worker, vars, stores, row, requests
<1>2. CASE WorkerAsk(d) /\ d \notin Platform
  <2>1. /\ worker[d] = "gate" /\ worker' = [worker EXCEPT ![d] = "scanning"]
        /\ scan' = [scan EXCEPT ![d] = "look"]
        /\ seen' = [seen EXCEPT ![d].pending = pending]
        /\ \A e \in Deliveries \ {d} : known'[e] = known[e]
        /\ known'[d] => status[ItemOf[d]] # "absent" \/ event[ItemOf[d]] \in Suspect
        /\ UNCHANGED <<verdict, event, alerts, mailed>>
    BY <1>2 DEF WorkerAsk, Suspect
  <2>2. seen[d] = Unread /\ scan[d] = "idle" /\ verdict[d] = "none"
    BY <2>1 DEF NotScanned
  <2>3. /\ seen'[d].item = "unread" /\ seen'[d].event = "unread"
        /\ \A e \in Deliveries \ {d} : seen'[e] = seen[e]
    BY <2>1, <2>2 DEF Unread, Lookups
  <2>4. NotScanned' BY <2>1, <2>3 DEF NotScanned
  <2>5. KeptIsStored' BY <1>1, <2>1 DEF KeptIsStored
  <2>6. KnownIsSeen' BY <1>1, <2>1, <2>3 DEF KnownIsSeen
  <2>7. HeldStaysSuspect' BY <2>1, <2>2 DEF HeldStaysSuspect
  <2>8. AlertIsForItem' BY <1>1, <2>1 DEF AlertIsForItem
  <2>9. AlertedOnce' BY <1>1, <2>1 DEF AlertedOnce
  <2>. QED BY <2>4, <2>5, <2>6, <2>7, <2>8, <2>9
<1>3. ASSUME UNCHANGED <<scan, seen, verdict, event, alerts, mailed, known>>,
             NEW step, worker' = [worker EXCEPT ![d] = step],
             step = "gate" => worker[d] = "arrived", step # "arrived",
             step = "kept" => upload[d] = "stored"
      PROVE  ScansInv'
  <2>1. NotScanned' BY <1>3 DEF NotScanned
  <2>2. KeptIsStored' BY <1>1, <1>3 DEF KeptIsStored
  <2>3. KnownIsSeen' /\ HeldStaysSuspect' BY <1>1, <1>3 DEF KnownIsSeen, HeldStaysSuspect
  <2>4. AlertIsForItem' /\ AlertedOnce' BY <1>1, <1>3 DEF AlertIsForItem, AlertedOnce
  <2>. QED BY <2>1, <2>2, <2>3, <2>4
<1>4. CASE WorkerIngest(d) BY <1>3, <1>4 DEF WorkerIngest
<1>5. CASE WorkerAsk(d) /\ d \in Platform BY <1>3, <1>5 DEF WorkerAsk
<1>6. CASE WorkerAnswer(d) BY <1>3, <1>6 DEF WorkerAnswer
<1>7. CASE WorkerScanTimeout(d) BY <1>3, <1>7 DEF WorkerScanTimeout
<1>8. CASE WorkerStored(d) BY <1>3, <1>8 DEF WorkerStored
<1>. QED BY <1>2, <1>4, <1>5, <1>6, <1>7, <1>8 DEF Worker

\* The scan of d has begun, so that its Worker is past the gate.
LEMMA ScanBegan ==
    ASSUME NotScanned, GatewayTypeOK, NEW d \in Deliveries, scan[d] # "idle",
           worker' = worker, UNCHANGED known,
           \A e \in Deliveries \ {d} :
               scan'[e] = scan[e] /\ seen'[e] = seen[e] /\ verdict'[e] = verdict[e]
    PROVE  NotScanned'
BY DEF NotScanned

LEMMA ScanKeepsScans ==
    ASSUME CopiesInv, GatewayTypeOK, ScansInv, NEW d \in Deliveries, ScanMore(d)
    PROVE  ScansInv'
<1>. USE ItemOfType DEF ScansInv, GatewayTypeOK, ScanGoto, Answer, Suspect
<1>1. CASE ScanLookItem(d) \/ ScanLookEvent(d)
  <2>1. /\ scan[d] = "look"
        /\ \/ /\ seen[d].item = "unread"
              /\ seen' = [seen EXCEPT ![d].item =
                            IF status[ItemOf[d]] = "absent" THEN "none" ELSE "there"]
           \/ seen' = [seen EXCEPT ![d].event = event[ItemOf[d]]]
        /\ UNCHANGED <<status, upload, worker, scan, verdict, event, alerts, mailed, pending, known>>
    BY <1>1 DEF ScanLookItem, ScanLookEvent, vars, stores, row, requests
  <2>2. /\ \A e \in Deliveries \ {d} : seen'[e] = seen[e]
        /\ seen'[d].item = seen[d].item
              \/ seen'[d].item = IF status[ItemOf[d]] = "absent" THEN "none" ELSE "there"
        /\ seen'[d].event = seen[d].event \/ seen'[d].event = event[ItemOf[d]]
    BY <2>1 DEF Lookups
  <2>3. NotScanned' BY <2>1, <2>2, ScanBegan
  <2>4. KeptIsStored' /\ HeldStaysSuspect' BY <2>1 DEF KeptIsStored, HeldStaysSuspect
  <2>5. KnownIsSeen' BY <2>1, <2>2 DEF KnownIsSeen
  <2>6. AlertIsForItem' /\ AlertedOnce' BY <2>1 DEF AlertIsForItem, AlertedOnce
  <2>. QED BY <2>3, <2>4, <2>5, <2>6
<1>2. CASE ScanDecide(d)
  <2>1. /\ scan[d] = "look" /\ UNCHANGED <<status, upload, worker, seen, event, alerts, mailed, known>>
        /\ \E v, step : /\ verdict' = [verdict EXCEPT ![d] = v]
                        /\ scan' = [scan EXCEPT ![d] = step]
                        /\ step \in {"hold", "journal", "answered"}
                        /\ step = "hold" => v = "phishing"
                        /\ d \notin Foreign /\ known[d] => v # "safe"
    <3>1. /\ d \in Foreign \/ (seen[d].item # "unread" /\ seen[d].event # "unread")
          /\ UNCHANGED <<status, upload, worker, seen, event, alerts, mailed, known>>
          /\ scan[d] = "look"
      BY <1>2 DEF ScanDecide, vars, stores, row, requests
    <3>2. d \notin Foreign /\ known[d] => seen[d].item = "there" \/ seen[d].event \in Suspect
      BY <3>1 DEF KnownIsSeen
    <3>. QED BY <1>2, <3>1, <3>2 DEF ScanDecide
  <2>2. NotScanned' BY <2>1, ScanBegan
  <2>3. KeptIsStored' /\ KnownIsSeen' BY <2>1 DEF KeptIsStored, KnownIsSeen
  <2>4. HeldStaysSuspect' BY <2>1 DEF HeldStaysSuspect
  <2>5. AlertIsForItem' BY <2>1 DEF AlertIsForItem
  <2>6. AlertedOnce' BY <2>1 DEF AlertedOnce
  <2>. QED BY <2>2, <2>3, <2>4, <2>5, <2>6
<1>3. CASE ScanHold(d)
  <2>1. /\ scan[d] = "hold" /\ UNCHANGED <<upload, worker, seen, verdict, event, alerts, mailed, known>>
        /\ \/ /\ status[ItemOf[d]] = "absent" /\ status' = [status EXCEPT ![ItemOf[d]] = "held"]
              /\ scan' = [scan EXCEPT ![d] = "alert"]
           \/ status' = status /\ scan' = [scan EXCEPT ![d] = "journal"]
    BY <1>3 DEF ScanHold, Hold, vars, stores, row, requests
  <2>2. \A i \in Items : status[i] # "absent" => status'[i] # "absent"
    BY <2>1 DEF TypeOK
  <2>3. NotScanned' BY <2>1, ScanBegan
  <2>4. KeptIsStored' /\ HeldStaysSuspect' BY <2>1 DEF KeptIsStored, HeldStaysSuspect
  <2>5. KnownIsSeen' BY <2>1, <2>2 DEF KnownIsSeen
  <2>6. AlertedOnce' BY <2>1, <2>2 DEF AlertedOnce
  <2>7. CASE status' = status /\ scan' = [scan EXCEPT ![d] = "journal"]
    <3>1. AlertIsForItem' BY <2>1, <2>7 DEF AlertIsForItem
    <3>. QED BY <2>3, <2>4, <2>5, <2>6, <3>1
  <2>8. CASE status[ItemOf[d]] = "absent" /\ scan' = [scan EXCEPT ![d] = "alert"]
    <3>1. alerts[ItemOf[d]] = {} BY <2>8 DEF AlertedOnce
    <3>2. \A e \in Deliveries : ItemOf[e] = ItemOf[d] => scan[e] # "alert"
      BY <2>8 DEF AlertIsForItem
    <3>3. status'[ItemOf[d]] # "absent" BY <2>1, <2>8 DEF TypeOK
    <3>4. AlertIsForItem' BY <2>1, <2>2, <2>8, <3>1, <3>2, <3>3 DEF AlertIsForItem
    <3>. QED BY <2>3, <2>4, <2>5, <2>6, <3>4
  <2>. QED BY <2>1, <2>7, <2>8
<1>4. CASE ScanAlert(d)
  <2>1. /\ scan[d] = "alert" /\ UNCHANGED <<status, upload, worker, seen, event, mailed, known>>
        /\ \/ /\ alerts' = [alerts EXCEPT ![ItemOf[d]] = @ \cup {d}]
              /\ verdict' = [verdict EXCEPT ![d] = "quarantine"]
              /\ scan' = [scan EXCEPT ![d] = "notify"]
           \/ UNCHANGED <<alerts, verdict>> /\ scan' = [scan EXCEPT ![d] = "journal"]
    BY <1>4 DEF ScanAlert, vars, stores, row, requests
  <2>2. /\ status[ItemOf[d]] # "absent" /\ alerts[ItemOf[d]] = {}
        /\ \A e \in Deliveries : ItemOf[e] = ItemOf[d] /\ scan[e] = "alert" => e = d
    BY <2>1 DEF AlertIsForItem
  <2>3. NotScanned' BY <2>1, ScanBegan
  <2>4. KeptIsStored' /\ KnownIsSeen' BY <2>1 DEF KeptIsStored, KnownIsSeen
  <2>5. HeldStaysSuspect' BY <2>1 DEF HeldStaysSuspect
  <2>6. AlertIsForItem' BY <2>1, <2>2 DEF AlertIsForItem
  <2>7. AlertedOnce' BY <2>1, <2>2 DEF AlertedOnce
  <2>. QED BY <2>3, <2>4, <2>5, <2>6, <2>7
<1>5. CASE ScanNotify(d)
  <2>1. /\ scan[d] = "notify" /\ scan' = [scan EXCEPT ![d] = "journal"]
        /\ UNCHANGED mailed \/ mailed' = [mailed EXCEPT ![ItemOf[d]] = @ \cup {d}]
        /\ UNCHANGED <<status, upload, worker, seen, verdict, event, alerts, known>>
    BY <1>5 DEF ScanNotify, vars, stores, row, requests
  <2>2. d \in alerts[ItemOf[d]] BY <2>1 DEF AlertIsForItem
  <2>3. NotScanned' BY <2>1, ScanBegan
  <2>4. KeptIsStored' /\ KnownIsSeen' /\ HeldStaysSuspect'
    BY <2>1 DEF KeptIsStored, KnownIsSeen, HeldStaysSuspect
  <2>5. AlertIsForItem' BY <2>1 DEF AlertIsForItem
  <2>6. AlertedOnce' BY <2>1, <2>2 DEF AlertedOnce
  <2>. QED BY <2>3, <2>4, <2>5, <2>6
<1>6. ASSUME scan[d] # "idle", NEW step \in {"answered", "activate", "failed"},
             scan' = [scan EXCEPT ![d] = step],
             \A i \in Items : event[i] \in Suspect => event'[i] \in Suspect,
             UNCHANGED <<status, upload, worker, seen, verdict, alerts, mailed, known>>
      PROVE  ScansInv'
  <2>1. NotScanned' BY <1>6, ScanBegan
  <2>2. KeptIsStored' /\ HeldStaysSuspect' BY <1>6 DEF KeptIsStored, HeldStaysSuspect
  <2>3. KnownIsSeen' BY <1>6 DEF KnownIsSeen
  <2>4. AlertIsForItem' BY <1>6 DEF AlertIsForItem
  <2>5. AlertedOnce' BY <1>6 DEF AlertedOnce
  <2>. QED BY <2>1, <2>2, <2>3, <2>4, <2>5
<1>7. CASE ScanJournal(d)
  <2>1. \A i \in Items : event[i] \in Suspect => event'[i] \in Suspect
    BY <1>7 DEF ScanJournal
  <2>2. /\ scan[d] = "journal"
        /\ UNCHANGED <<status, upload, worker, seen, verdict, alerts, mailed, known>>
        /\ \/ scan' = [scan EXCEPT ![d] = "answered"]
           \/ scan' = [scan EXCEPT ![d] = "activate"]
    BY <1>7 DEF ScanJournal, vars, stores, row, requests
  <2>. QED BY <1>6, <2>1, <2>2
<1>8. CASE ScanActivate(d) \/ ScanFail(d) \/ ScanCrash(d)
  <2>1. /\ scan[d] # "idle"
        /\ UNCHANGED <<status, upload, worker, seen, verdict, event, alerts, mailed, known>>
        /\ \/ scan' = [scan EXCEPT ![d] = "answered"]
           \/ scan' = [scan EXCEPT ![d] = "failed"]
    BY <1>8 DEF ScanActivate, ScanFail, ScanCrash, vars, stores, row, requests
  <2>. QED BY <1>6, <2>1
<1>. QED BY <1>1, <1>2, <1>3, <1>4, <1>5, <1>7, <1>8 DEF ScanMore, Scan

-----------------------------------------------------------------------------
(* The theorems.                                                           *)

LEMMA GatewayInitInv == GatewayInit => GatewayInv
<1>. SUFFICES ASSUME GatewayInit PROVE GatewayInv OBVIOUS
<1>. USE DEF GatewayInit
<1>1. CopiesInv BY CopiesInit
<1>2. Unread \in Lookups BY DEF Unread, Lookups
<1>3. GatewayTypeOK
  BY <1>1, <1>2 DEF CopiesInv, GatewayTypeOK, WorkerSteps, Final, ScanSteps, Verdicts
<1>4. NotScanned /\ KeptIsStored /\ KnownIsSeen
  BY DEF NotScanned, KeptIsStored, KnownIsSeen
<1>5. HeldStaysSuspect /\ AlertIsForItem /\ AlertedOnce
  BY ItemOfType DEF HeldStaysSuspect, AlertIsForItem, AlertedOnce
<1>. QED BY <1>1, <1>3, <1>4, <1>5 DEF GatewayInv, ScansInv

LEMMA GatewayInvStep == GatewayInv /\ [GatewayNext]_gatewayVars => GatewayInv'
<1>. SUFFICES ASSUME GatewayInv, [GatewayNext]_gatewayVars PROVE GatewayInv' OBVIOUS
<1>. USE DEF GatewayInv
<1>1. [Next]_vars /\ CopiesInv' BY GatewaySteps, CopiesStep
<1>2. CASE UNCHANGED gateway BY <1>1, <1>2, CustodyKeepsScans
<1>3. ASSUME NEW d \in Deliveries, Worker(d) PROVE GatewayInv'
  BY <1>1, <1>3, WorkerTyped, WorkerKeepsScans
<1>4. ASSUME NEW d \in Deliveries, ScanMore(d) PROVE GatewayInv'
  BY <1>1, <1>4, ScanTyped, ScanKeepsScans DEF CopiesInv
<1>. QED BY <1>2, <1>3, <1>4, GatewaySteps

LEMMA GatewayInvariance == GatewaySpec => []GatewayInv
BY GatewayInitInv, GatewayInvStep, PTL DEF GatewaySpec

\* Every variable of the mail path keeps its type.
THEOREM GatewayTypeCorrect == GatewaySpec => []GatewayTypeOK
<1>1. GatewayInv => GatewayTypeOK BY DEF GatewayInv
<1>. QED BY <1>1, GatewayInvariance, PTL

\* A scan that begins when the message is held or journalled never clears it.
THEOREM SuspectStays == GatewaySpec => []HeldStaysSuspect
<1>1. GatewayInv => HeldStaysSuspect BY DEF GatewayInv, ScansInv
<1>. QED BY <1>1, GatewayInvariance, PTL

\* One alert row and one mail for a message, however often it is delivered.
THEOREM OneAlert == GatewaySpec => []AlertedOnce
<1>1. GatewayInv => AlertedOnce BY DEF GatewayInv, ScansInv
<1>. QED BY <1>1, GatewayInvariance, PTL

\* What the Worker answered for by keeping it has its raw copy, and its row
\* points to the copy while somebody may want to release it.
THEOREM KeptInCustody == GatewaySpec => []KeptIsInCustody
<1>1. ASSUME GatewayInv PROVE KeptIsInCustody
  <2>. SUFFICES ASSUME NEW d \in Deliveries, worker[d] = "kept",
                       acked[ItemOf[d]] = {}, ~discarded[ItemOf[d]]
                PROVE  /\ object[ItemOf[d]] # NoBytes
                       /\ Wanted(ItemOf[d]) /\ status[ItemOf[d]] \in {"held", "releasing"} =>
                            raw[ItemOf[d]] # NoBytes
    BY DEF KeptIsInCustody, Wanted
  <2>1. upload[d] = "stored" BY <1>1 DEF GatewayInv, ScansInv, KeptIsStored
  <2>. QED
    BY <1>1, <2>1, ItemOfType
    DEF GatewayInv, CopiesInv, SeenIsAccounted, Accounted, StoredIsRecorded
<1>. QED BY <1>1, GatewayInvariance, PTL

-----------------------------------------------------------------------------
(* The journal, while no process dies.                                     *)

LEMMA JournalStep ==
    ASSUME ~Crashes, GatewayInv, HeldIsJournalled, [GatewayNext]_gatewayVars
    PROVE  HeldIsJournalled'
<1>. USE ItemOfType DEF HeldIsJournalled, Suspect
<1>1. GatewayTypeOK /\ AlertIsForItem /\ TypeOK
  BY DEF GatewayInv, CopiesInv, ScansInv
<1>2. ASSUME UNCHANGED <<status, scan, verdict, event>> PROVE HeldIsJournalled' BY <1>2
<1>3. ASSUME NEW d \in Deliveries, Worker(d) PROVE HeldIsJournalled'
  <2>1. UNCHANGED <<status, verdict, event>>
    BY <1>3 DEF Worker, vars, stores, row, WorkerIngest, WorkerAsk, WorkerAnswer,
       WorkerScanTimeout, WorkerStored
  <2>2. UNCHANGED scan \/ (scan' = [scan EXCEPT ![d] = "look"] /\ scan[d] = "idle")
    BY <1>3 DEF Worker, WorkerIngest, WorkerAsk, WorkerAnswer, WorkerScanTimeout, WorkerStored,
       GatewayInv, ScansInv, NotScanned
  <2>. QED BY <1>1, <2>1, <2>2 DEF GatewayTypeOK
<1>4. ASSUME NEW d \in Deliveries, ScanMore(d) PROVE HeldIsJournalled'
  <2>. USE DEF ScanGoto, Answer, GatewayTypeOK
  <2>1. ASSUME scan[d] \in {"look", "hold"} \/ event[ItemOf[d]] \in Suspect,
               UNCHANGED <<status, event>>,
               \A e \in Deliveries \ {d} : scan'[e] = scan[e] /\ verdict'[e] = verdict[e]
        PROVE  HeldIsJournalled'
    BY <1>1, <2>1
  <2>2. CASE ScanLookItem(d) \/ ScanLookEvent(d)
    BY <1>2, <2>2 DEF ScanLookItem, ScanLookEvent, vars, stores, row
  <2>3. CASE ScanDecide(d) BY <1>1, <2>1, <2>3 DEF ScanDecide, vars, stores, row
  <2>4. CASE ScanFail(d) BY <1>1, <2>1, <2>4 DEF ScanFail, vars, stores, row
  <2>5. CASE ScanHold(d)
    <3>1. /\ scan[d] = "hold" /\ UNCHANGED <<verdict, event>> /\ verdict[d] \in Suspect
          /\ \/ /\ status' = [status EXCEPT ![ItemOf[d]] = "held"]
                /\ scan' = [scan EXCEPT ![d] = "alert"]
             \/ UNCHANGED status /\ scan' = [scan EXCEPT ![d] = "journal"]
      BY <1>1, <2>5 DEF ScanHold, Hold, vars, stores, row, AlertIsForItem
    <3>2. /\ scan'[d] \in {"alert", "journal"}
          /\ \A e \in Deliveries \ {d} : scan'[e] = scan[e]
          /\ \A i \in Items \ {ItemOf[d]} : status'[i] = status[i]
      BY <1>1, <3>1 DEF TypeOK
    <3>. QED BY <1>1, <3>1, <3>2
  <2>6. CASE ScanAlert(d) \/ ScanNotify(d)
    <3>1. /\ UNCHANGED <<status, event>> /\ verdict[d] \in Suspect
          /\ UNCHANGED verdict \/ verdict' = [verdict EXCEPT ![d] = "quarantine"]
          /\ scan' = [scan EXCEPT ![d] = "notify"] \/ scan' = [scan EXCEPT ![d] = "journal"]
      BY <1>1, <2>6 DEF ScanAlert, ScanNotify, vars, stores, row, AlertIsForItem
    <3>2. /\ scan'[d] \in {"notify", "journal"} /\ verdict'[d] \in Suspect
          /\ \A e \in Deliveries \ {d} : scan'[e] = scan[e] /\ verdict'[e] = verdict[e]
      BY <1>1, <3>1
    <3>. QED BY <1>1, <3>1, <3>2
  <2>7. CASE ScanJournal(d)
    <3>1. /\ UNCHANGED <<status, verdict>>
          /\ event' = [event EXCEPT ![ItemOf[d]] = IF @ \in Suspect THEN @ ELSE verdict[d]]
          /\ \A e \in Deliveries \ {d} : scan'[e] = scan[e]
      BY <1>1, <2>7 DEF ScanJournal, vars, stores, row
    <3>2. /\ \A i \in Items : event[i] \in Suspect => event'[i] \in Suspect
          /\ verdict[d] \in Suspect => event'[ItemOf[d]] \in Suspect
      BY <1>1, <3>1
    <3>. QED BY <1>1, <3>1, <3>2
  <2>8. CASE ScanActivate(d)
    <3>1. /\ scan[d] = "activate" /\ scan' = [scan EXCEPT ![d] = "answered"]
          /\ UNCHANGED <<status, verdict, event>>
      BY <2>8 DEF ScanActivate, vars, stores, row
    <3>2. \A e \in Deliveries \ {d} : scan'[e] = scan[e] BY <1>1, <3>1
    <3>. QED BY <1>1, <3>1, <3>2
  <2>9. ~ScanCrash(d) BY DEF ScanCrash
  <2>. QED
    BY <1>4, <2>2, <2>3, <2>4, <2>5, <2>6, <2>7, <2>8, <2>9 DEF ScanMore, Scan
<1>5. CASE UNCHANGED gateway /\ CustodyAlone
  <2>1. \A i \in Items : status'[i] # "absent" => status[i] # "absent"
    BY <1>5, NoHold DEF GatewayInv, CopiesInv
  <2>. QED BY <1>5, <2>1 DEF gateway
<1>. QED BY <1>3, <1>4, <1>5, GatewaySteps

\* While no process dies, the journal says of every held message, once no scan
\* of it is under way, that it was suspect.
THEOREM JournalAgreement ==
    ASSUME ~Crashes
    PROVE  GatewaySpec => []JournalAgrees
<1>1. GatewayInit => HeldIsJournalled BY DEF GatewayInit, Init, HeldIsJournalled
<1>2. GatewayInv /\ HeldIsJournalled /\ [GatewayNext]_gatewayVars => HeldIsJournalled'
  BY JournalStep
<1>3. HeldIsJournalled => JournalAgrees BY DEF HeldIsJournalled, JournalAgrees, Suspect
<1>. QED BY <1>1, <1>2, <1>3, GatewayInvariance, PTL DEF GatewaySpec

-----------------------------------------------------------------------------
(* The mail path does what MessageFate says.                               *)

\* The copy of one message changes, in a way MessageFate allows.
LEMMA CopyFate ==
    ASSUME TypeOK, CopyStep, UNCHANGED FateOf
    PROVE  Fate!Next \/ UNCHANGED <<CustodyOf, FateOf>>
<1>1. CASE UNCHANGED <<object, acked, discarded>> BY <1>1 DEF CustodyOf
<1>2. ASSUME NEW i \in Items,
             \/ /\ object' = [object EXCEPT ![i] = NoBytes]
                /\ discarded' = [discarded EXCEPT ![i] = TRUE]
                /\ UNCHANGED acked /\ Accounted(i)
             \/ /\ object' = [object EXCEPT ![i] = NoBytes]
                /\ UNCHANGED <<acked, discarded>> /\ acked[i] # {}
      PROVE  Fate!Next \/ UNCHANGED <<CustodyOf, FateOf>>
  <2>1. object'[i] = NoBytes /\ (acked'[i] # {} \/ discarded'[i])
    BY <1>2 DEF TypeOK
  <2>2. \A j \in Items \ {i} :
            object'[j] = object[j] /\ acked'[j] = acked[j] /\ discarded'[j] = discarded[j]
    <3>1. \A j \in Items \ {i} : object'[j] = object[j] /\ acked'[j] = acked[j]
      BY <1>2 DEF TypeOK
    <3>2. \A j \in Items \ {i} : discarded'[j] = discarded[j] BY <1>2 DEF TypeOK
    <3>. QED BY <3>1, <3>2
  <2>3. CustodyOf' = [CustodyOf EXCEPT ![i] = "ended"] BY <2>1, <2>2 DEF CustodyOf
  <2>4. CASE object[i] # NoBytes
    <3>1. Fate!End(i) BY <2>3, <2>4 DEF Fate!End, CustodyOf
    <3>. QED BY <3>1 DEF Fate!Next
  <2>5. CASE object[i] = NoBytes
    <3>1. CustodyOf[i] = "ended" BY <1>2, <2>5 DEF CustodyOf, Accounted
    <3>2. UNCHANGED CustodyOf BY <2>3, <3>1 DEF CustodyOf
    <3>. QED BY <3>2
  <2>. QED BY <2>4, <2>5
<1>3. ASSUME NEW i \in Items, NEW b \in Bytes, object' = [object EXCEPT ![i] = b],
             UNCHANGED <<acked, discarded>>
      PROVE  Fate!Next
  <2>1. b # NoBytes BY DEF Bytes
  <2>2. CustodyOf' = [CustodyOf EXCEPT ![i] = "stored"] BY <1>3, <2>1 DEF CustodyOf, TypeOK
  <2>3. Fate!Store(i) BY <2>2 DEF Fate!Store
  <2>. QED BY <2>3 DEF Fate!Next
<1>4. ASSUME NEW i \in Items, NEW r \in Releases, acked' = [acked EXCEPT ![i] = @ \cup {r}],
             UNCHANGED <<object, discarded>>, Accounted(i)
      PROVE  UNCHANGED CustodyOf
  <2>1. /\ acked'[i] # {}
        /\ \A j \in Items \ {i} : acked'[j] = acked[j]
    BY <1>4 DEF TypeOK
  <2>. QED BY <1>4, <2>1 DEF CustodyOf, Accounted
<1>. QED BY <1>1, <1>2, <1>3, <1>4 DEF CopyStep

\* The Worker decides a delivery once, and keeps it for a copy it knows of.
LEMMA WorkerFate ==
    ASSUME GatewayInv, GatewayInv', NEW d \in Deliveries, Worker(d)
    PROVE  Fate!Decide(d) \/ UNCHANGED <<CustodyOf, FateOf>>
<1>1. UNCHANGED CustodyOf
  BY DEF Worker, vars, stores, outcome, CustodyOf
<1>2. PICK step \in WorkerSteps : /\ worker' = [worker EXCEPT ![d] = step]
                                  /\ worker[d] \notin Final
  BY DEF Worker, WorkerIngest, WorkerAsk, WorkerAnswer, WorkerScanTimeout, WorkerStored,
     WorkerGoto, WorkerSteps, Final
<1>3. worker \in [Deliveries -> WorkerSteps]
  BY DEF GatewayInv, GatewayTypeOK
<1>4. FateOf[d] = "pending" /\ \A e \in Deliveries \ {d} : worker'[e] = worker[e]
  BY <1>2, <1>3 DEF FateOf, Final
<1>5. CASE step \notin Final
  <2>1. FateOf' = FateOf BY <1>2, <1>3, <1>5 DEF FateOf, Final
  <2>. QED BY <1>1, <2>1
<1>6. CASE step \in Final
  <2>1. PICK f \in {"forwarded", "rejected", "ingested", "kept"} :
           /\ FateOf' = [FateOf EXCEPT ![d] = f]
           /\ f = "kept" => step = "kept"
    <3>1. CASE step \in {"bounced", "unstored"}
      <4>1. FateOf' = [FateOf EXCEPT ![d] = "rejected"] BY <1>2, <1>3, <3>1 DEF FateOf
      <4>. QED BY <4>1
    <3>2. CASE step \in {"forwarded", "kept", "ingested"}
      <4>1. FateOf' = [FateOf EXCEPT ![d] = step] BY <1>2, <1>3, <3>2 DEF FateOf
      <4>. QED BY <3>2, <4>1
    <3>. QED BY <1>6, <3>1, <3>2 DEF Final
  <2>2. f = "kept" => CustodyOf[ItemOf[d]] # "none"
    <3>1. SUFFICES ASSUME f = "kept" PROVE CustodyOf[ItemOf[d]] # "none" OBVIOUS
    <3>2. worker'[d] = "kept" BY <1>2, <1>3, <2>1, <3>1
    <3>3. upload'[d] = "stored" BY <3>2 DEF GatewayInv, ScansInv, KeptIsStored
    <3>4. Accounted(ItemOf[d])' BY <3>3 DEF GatewayInv, CopiesInv, SeenIsAccounted
    <3>5. CustodyOf'[ItemOf[d]] # "none" BY <3>4, ItemOfType DEF Accounted, CustodyOf
    <3>. QED BY <1>1, <3>5
  <2>. QED BY <1>1, <1>4, <2>1, <2>2 DEF Fate!Decide
<1>. QED BY <1>5, <1>6

\* A delivery is answered for once, and one that is kept has a copy that stays
\* until its message is delivered or given up: for every number of messages,
\* deliveries, releases, deletions and purges, with crashes.
THEOREM FateImplemented == GatewaySpec => ImplementsFate
<1>1. GatewayInit => Fate!Init
  BY ItemOfType DEF GatewayInit, Init, Fate!Init, CustodyOf, FateOf
<1>2. ASSUME GatewayInv, GatewayInv', [GatewayNext]_gatewayVars
      PROVE  [Fate!Next]_<<CustodyOf, FateOf>>
  <2>1. [Next]_vars /\ TypeOK /\ CopyStep
    BY <1>2, GatewaySteps, CopySteps DEF GatewayInv, CopiesInv
  <2>2. CASE UNCHANGED gateway
    <3>1. UNCHANGED FateOf BY <2>2 DEF gateway, FateOf
    <3>. QED BY <2>1, <3>1, CopyFate
  <2>3. ASSUME NEW d \in Deliveries, Worker(d) PROVE [Fate!Next]_<<CustodyOf, FateOf>>
    BY <1>2, <2>3, WorkerFate DEF Fate!Next
  <2>4. ASSUME NEW d \in Deliveries, ScanMore(d) PROVE [Fate!Next]_<<CustodyOf, FateOf>>
    <3>1. UNCHANGED worker
      BY <2>4
      DEF ScanMore, Scan, ScanLookItem, ScanLookEvent, ScanDecide, ScanHold,
          ScanAlert, ScanNotify, ScanJournal, ScanActivate, ScanFail, ScanCrash
    <3>2. UNCHANGED FateOf BY <3>1 DEF FateOf
    <3>. QED BY <2>1, <3>2, CopyFate
  <2>. QED BY <1>2, <2>2, <2>3, <2>4, GatewaySteps
<1>. QED BY <1>1, <1>2, GatewayInvariance, PTL DEF GatewaySpec, ImplementsFate, Fate!Spec

-----------------------------------------------------------------------------
(* Reports.  A report the Worker has swallowed is stored, whichever        *)
(* requests die on the way.  The inductive invariant:                      *)

USE RecordsAssumption

\* What a request has behind it, and what its answer stands for: the answer is
\* given for a row that any request may have inserted, and for records that
\* were all gone through, whoever has inserted them.
RequestsInv ==
    \A d \in Reports :
        /\ ingest[d] \in {"write", "row", "note"} => kind[d] = "forwarded"
        /\ ingest[d] \in {"import", "ignored"} => kind[d] = "aggregate"
        /\ ingest[d] = "row" => d \in evidence
        /\ 1..cursor[d] \subseteq imported[ItemOf[d]]
        /\ ingest[d] = "note" => reported[ItemOf[d]] # NoReport
        /\ ingest[d] = "accepted" =>
              IF kind[d] = "forwarded" THEN reported[ItemOf[d]] # NoReport
              ELSE cursor[d] = Records

\* The object is written before the row that points to it.
EvidenceFirst == \A i \in Items : reported[i] # NoReport => reported[i] \in evidence

AnsweredBeforeIngested ==
    \A d \in Reports : worker[d] = "ingested" => ingest[d] \in {"accepted", "ignored"}

IngestInv ==
    /\ worker \in [Deliveries -> WorkerSteps]
    /\ ReportsTypeOK /\ RequestsInv /\ EvidenceFirst /\ AnsweredBeforeIngested

LEMMA ItemOfReports == \A d \in Reports : d \in Deliveries /\ ItemOf[d] \in Items
OBVIOUS

LEMMA IngestInit == ReportsInit => IngestInv
<1>. SUFFICES ASSUME ReportsInit PROVE IngestInv OBVIOUS
<1>. USE ItemOfReports DEF ReportsInit
<1>1. worker = [d \in Deliveries |-> "arrived"] BY DEF GatewayInit
<1>2. worker \in [Deliveries -> WorkerSteps] BY <1>1 DEF WorkerSteps
<1>3. ReportsTypeOK BY DEF ReportsTypeOK, IngestSteps, IngestAnswers
<1>4. RequestsInv
  <2>1. \A d \in Reports : 1..cursor[d] = {} OBVIOUS
  <2>. QED BY <2>1 DEF RequestsInv
<1>5. EvidenceFirst BY DEF EvidenceFirst
<1>6. AnsweredBeforeIngested BY <1>1 DEF AnsweredBeforeIngested
<1>. QED BY <1>2, <1>3, <1>4, <1>5, <1>6 DEF IngestInv

-----------------------------------------------------------------------------
(* The Worker.                                                             *)

\* One Worker moves at a time, and only WorkerIngest ends in "ingested".
LEMMA WorkerMoves ==
    ASSUME worker \in [Deliveries -> WorkerSteps], GatewayNext
    PROVE  /\ worker' \in [Deliveries -> WorkerSteps]
           /\ \A d \in Deliveries :
                 worker'[d] = "ingested" => worker[d] \in {"arrived", "ingested"}
<1>. USE DEF WorkerGoto, WorkerSteps, Final
<1>1. ASSUME NEW d \in Deliveries, Worker(d)
      PROVE  \E step \in WorkerSteps :
                /\ worker' = [worker EXCEPT ![d] = step]
                /\ step = "ingested" => worker[d] = "arrived"
  BY <1>1 DEF Worker, WorkerIngest, WorkerAsk, WorkerAnswer, WorkerScanTimeout, WorkerStored
<1>2. ASSUME NEW d \in Deliveries,
             Scan(d) \/ ScanFail(d) \/ ScanCrash(d) \/ Custody(d)
      PROVE  UNCHANGED worker
  BY <1>2
  DEF Scan, ScanLookItem, ScanLookEvent, ScanDecide, ScanHold, ScanAlert, ScanNotify,
      ScanJournal, ScanActivate, ScanFail, ScanCrash, Custody, gateway
<1>3. UNCHANGED gateway => UNCHANGED worker BY DEF gateway
<1>4. UNCHANGED worker \/ \E d \in Deliveries : Worker(d) BY <1>2, <1>3 DEF GatewayNext
<1>. QED BY <1>1, <1>4

\* The Worker has the outcome its request was answered with.
LEMMA WorkerKeepsIngest ==
    ASSUME IngestInv, GatewayNext, \A d \in Reports : WorkerOutcome(d), UNCHANGED reports
    PROVE  IngestInv'
<1>. USE ItemOfReports DEF IngestInv, reports
<1>1. worker' \in [Deliveries -> WorkerSteps] BY WorkerMoves
<1>2. ReportsTypeOK' /\ RequestsInv' /\ EvidenceFirst'
  BY DEF ReportsTypeOK, RequestsInv, EvidenceFirst
<1>3. ASSUME NEW d \in Reports, worker'[d] = "ingested"
      PROVE  ingest'[d] \in {"accepted", "ignored"}
  <2>1. worker[d] \in {"arrived", "ingested"} BY <1>3, WorkerMoves
  <2>2. CASE worker[d] = "ingested" BY <2>2 DEF AnsweredBeforeIngested
  <2>3. CASE worker[d] = "arrived" BY <1>3, <2>3 DEF WorkerOutcome
  <2>. QED BY <2>1, <2>2, <2>3
<1>. QED BY <1>1, <1>2, <1>3 DEF AnsweredBeforeIngested

-----------------------------------------------------------------------------
(* The requests.                                                           *)

\* A request moves on: it has something behind it for its next step.
LEMMA RequestMoves ==
    ASSUME IngestInv, NEW d \in Reports, NEW step \in IngestSteps \cup IngestAnswers,
           ingest[d] \in IngestSteps, ingest' = [ingest EXCEPT ![d] = step],
           UNCHANGED <<worker, kind, reported, imported, cursor>>,
           evidence' \in SUBSET Reports, evidence \subseteq evidence',
           feedback' \in SUBSET Reports,
           step \in {"write", "row", "note"} => kind[d] = "forwarded",
           step \in {"import", "ignored"} => kind[d] = "aggregate",
           step = "row" => d \in evidence',
           step = "note" => reported[ItemOf[d]] # NoReport,
           step = "accepted" => IF kind[d] = "forwarded" THEN reported[ItemOf[d]] # NoReport
                                ELSE cursor[d] = Records
    PROVE  IngestInv'
<1>. USE ItemOfReports DEF IngestInv
<1>1. ReportsTypeOK' BY DEF ReportsTypeOK
<1>2. /\ ingest'[d] = step /\ \A e \in Reports \ {d} : ingest'[e] = ingest[e]
  BY DEF ReportsTypeOK
<1>3. RequestsInv'
  <2>1. ASSUME NEW e \in Reports \ {d} PROVE ingest'[e] = ingest[e] BY <1>2
  <2>. QED BY <1>2, <2>1 DEF RequestsInv
<1>4. EvidenceFirst' BY DEF EvidenceFirst
<1>5. AnsweredBeforeIngested'
  <2>1. ingest[d] \notin {"accepted", "ignored"} BY DEF IngestSteps
  <2>. QED BY <1>2, <2>1 DEF AnsweredBeforeIngested
<1>. QED BY <1>1, <1>3, <1>4, <1>5

LEMMA RowKeepsIngest ==
    ASSUME IngestInv, NEW d \in Reports, ReportRow(d), UNCHANGED worker
    PROVE  IngestInv'
<1>. USE ItemOfReports DEF ReportRow, IngestGoto
<1>1. kind[d] = "forwarded" /\ d \in evidence BY DEF IngestInv, RequestsInv
<1>2. CASE reported[ItemOf[d]] # NoReport
  BY <1>1, <1>2, RequestMoves DEF IngestSteps, IngestAnswers, IngestInv, ReportsTypeOK
<1>3. CASE reported[ItemOf[d]] = NoReport
  <2>. USE DEF IngestInv
  <2>1. /\ reported' = [reported EXCEPT ![ItemOf[d]] = d]
        /\ ingest' = [ingest EXCEPT ![d] = "note"]
        /\ UNCHANGED <<kind, evidence, feedback, imported, cursor>>
        /\ ingest[d] = "row"
    BY <1>3
  <2>2. ReportsTypeOK' BY <2>1 DEF ReportsTypeOK, IngestSteps
  <2>3. /\ reported'[ItemOf[d]] = d
        /\ \A i \in Items \ {ItemOf[d]} : reported'[i] = reported[i]
        /\ ingest'[d] = "note" /\ \A e \in Reports \ {d} : ingest'[e] = ingest[e]
    BY <2>1 DEF ReportsTypeOK
  <2>4. RequestsInv' BY <1>1, <2>1, <2>3 DEF RequestsInv
  <2>5. EvidenceFirst' BY <1>1, <2>1, <2>3 DEF EvidenceFirst
  <2>6. AnsweredBeforeIngested' BY <2>1, <2>3 DEF AnsweredBeforeIngested
  <2>7. worker' \in [Deliveries -> WorkerSteps] OBVIOUS
  <2>. QED BY <2>2, <2>4, <2>5, <2>6, <2>7
<1>. QED BY <1>2, <1>3

LEMMA RecordKeepsIngest ==
    ASSUME IngestInv, NEW d \in Reports, AggregateRecord(d), UNCHANGED worker
    PROVE  IngestInv'
<1>. USE ItemOfReports DEF AggregateRecord, IngestGoto
<1>1. kind[d] = "aggregate" BY DEF IngestInv, RequestsInv
<1>2. CASE cursor[d] = Records
  BY <1>1, <1>2, RequestMoves DEF IngestSteps, IngestAnswers, IngestInv, ReportsTypeOK
<1>3. CASE cursor[d] # Records
  <2>. USE DEF IngestInv
  <2>1. /\ imported' = [imported EXCEPT ![ItemOf[d]] = @ \cup {cursor[d] + 1}]
        /\ cursor' = [cursor EXCEPT ![d] = @ + 1]
        /\ ingest[d] = "import"
        /\ UNCHANGED <<kind, ingest, evidence, reported, feedback>>
    BY <1>3
  <2>2. cursor[d] + 1 \in 1..Records BY <1>3 DEF ReportsTypeOK
  <2>3. ReportsTypeOK'
    <3>1. imported' \in [Items -> SUBSET (1..Records)] BY <2>1, <2>2 DEF ReportsTypeOK
    <3>2. cursor' \in [Reports -> 0..Records]
      <4>1. cursor[d] + 1 \in 0..Records BY <2>2
      <4>. QED BY <2>1, <4>1 DEF ReportsTypeOK
    <3>. QED BY <2>1, <3>1, <3>2 DEF ReportsTypeOK
  <2>4. \A i \in Items : imported[i] \subseteq imported'[i] BY <2>1 DEF ReportsTypeOK
  <2>5. \A e \in Reports : 1..cursor'[e] \subseteq imported'[ItemOf[e]]
    <3>1. ASSUME NEW e \in Reports, e # d PROVE 1..cursor'[e] \subseteq imported'[ItemOf[e]]
      <4>1. cursor'[e] = cursor[e] BY <2>1, <3>1 DEF ReportsTypeOK
      <4>. QED BY <2>4, <4>1 DEF RequestsInv
    <3>2. 1..cursor'[d] \subseteq imported'[ItemOf[d]]
      <4>1. cursor'[d] = cursor[d] + 1 /\ cursor[d] \in Nat BY <2>1 DEF ReportsTypeOK
      <4>2. cursor[d] + 1 \in imported'[ItemOf[d]] BY <2>1 DEF ReportsTypeOK
      <4>3. 1..cursor[d] \subseteq imported'[ItemOf[d]] BY <2>4 DEF RequestsInv
      <4>4. 1..(cursor[d] + 1) = 1..cursor[d] \cup {cursor[d] + 1} BY <4>1
      <4>. QED BY <4>1, <4>2, <4>3, <4>4
    <3>. QED BY <3>1, <3>2
  <2>6. RequestsInv'
    <3>1. \A e \in Reports : ingest[e] = "accepted" => cursor'[e] = cursor[e]
      BY <2>1 DEF ReportsTypeOK
    <3>. QED BY <2>1, <2>5, <3>1 DEF RequestsInv
  <2>7. EvidenceFirst' /\ AnsweredBeforeIngested'
    BY <2>1 DEF EvidenceFirst, AnsweredBeforeIngested
  <2>. QED BY <2>3, <2>6, <2>7
<1>. QED BY <1>2, <1>3

LEMMA RequestKeepsIngest ==
    ASSUME IngestInv, NEW d \in Reports, IngestStep(d) \/ IngestFail(d), UNCHANGED gatewayVars
    PROVE  IngestInv'
<1>. USE ItemOfReports DEF IngestGoto, IngestSteps, IngestAnswers
<1>1. UNCHANGED worker BY DEF gatewayVars, gateway
<1>2. ingest \in [Reports -> IngestSteps \cup IngestAnswers] /\ evidence \subseteq Reports
      /\ feedback \subseteq Reports
  BY DEF IngestInv, ReportsTypeOK
<1>3. CASE IngestStart(d) \/ IngestFail(d)
  BY <1>1, <1>2, <1>3, RequestMoves DEF IngestStart, IngestFail
<1>4. CASE ReportLook(d) \/ AggregateLook(d)
  BY <1>1, <1>2, <1>4, RequestMoves DEF ReportLook, AggregateLook
<1>5. CASE ReportWrite(d)
  <2>1. kind[d] = "forwarded" BY <1>5 DEF ReportWrite, IngestInv, RequestsInv
  <2>. QED BY <1>1, <1>2, <1>5, <2>1, RequestMoves DEF ReportWrite
<1>6. CASE ReportNote(d)
  <2>1. kind[d] = "forwarded" /\ reported[ItemOf[d]] # NoReport
    BY <1>6 DEF ReportNote, IngestInv, RequestsInv
  <2>. QED BY <1>1, <1>2, <1>6, <2>1, RequestMoves DEF ReportNote
<1>7. CASE ReportRow(d) BY <1>1, <1>7, RowKeepsIngest
<1>8. CASE AggregateRecord(d) BY <1>1, <1>8, RecordKeepsIngest
<1>. QED BY <1>3, <1>4, <1>5, <1>6, <1>7, <1>8 DEF IngestStep

LEMMA IngestInvStep ==
    IngestInv /\ [ReportsNext]_<<gatewayVars, reports>> => IngestInv'
<1>. SUFFICES ASSUME IngestInv, [ReportsNext]_<<gatewayVars, reports>> PROVE IngestInv'
  OBVIOUS
<1>1. CASE UNCHANGED worker /\ UNCHANGED reports
  BY <1>1 DEF reports, IngestInv, ReportsTypeOK, RequestsInv, EvidenceFirst,
              AnsweredBeforeIngested
<1>2. CASE GatewayNext /\ (\A d \in Reports : WorkerOutcome(d)) /\ UNCHANGED reports
  BY <1>2, WorkerKeepsIngest
<1>3. ASSUME NEW d \in Reports, (IngestStep(d) \/ IngestFail(d)) /\ UNCHANGED gatewayVars
      PROVE  IngestInv'
  BY <1>3, RequestKeepsIngest
<1>4. UNCHANGED <<gatewayVars, reports>> \/ (Activated /\ UNCHANGED reports) =>
         UNCHANGED worker /\ UNCHANGED reports
  BY DEF gatewayVars, gateway, Activated
<1>. QED BY <1>1, <1>2, <1>3, <1>4 DEF ReportsNext

-----------------------------------------------------------------------------
(* The report that was swallowed.                                          *)

LEMMA IngestInvariance == ReportsSpec => []IngestInv
BY IngestInit, IngestInvStep, PTL DEF ReportsSpec

\* A report the Worker has swallowed, instead of forwarding or classifying it,
\* is stored: its row and the object the row points to, or all its records;
\* whichever request stored it, and although requests die between statements.
THEOREM SwallowedIsStored == ReportsSpec => []IngestedIsPersisted
<1>1. ASSUME IngestInv PROVE IngestedIsPersisted
  <2>. SUFFICES ASSUME NEW d \in Reports, worker[d] = "ingested"
                PROVE  \/ kind[d] = "forwarded" /\ reported[ItemOf[d]] \in evidence
                       \/ kind[d] = "aggregate" /\ imported[ItemOf[d]] = 1..Records
                       \/ kind[d] = "aggregate" /\ ingest[d] = "ignored"
    BY DEF IngestedIsPersisted
  <2>. USE <1>1, ItemOfReports DEF IngestInv
  <2>1. CASE ingest[d] = "ignored" BY <2>1 DEF RequestsInv
  <2>2. CASE ingest[d] = "accepted" /\ kind[d] = "forwarded"
    BY <2>2 DEF RequestsInv, EvidenceFirst
  <2>3. CASE ingest[d] = "accepted" /\ kind[d] = "aggregate"
    BY <2>3 DEF RequestsInv, ReportsTypeOK
  <2>. QED BY <2>1, <2>2, <2>3 DEF AnsweredBeforeIngested, ReportsTypeOK
<1>. QED BY <1>1, IngestInvariance, PTL
=============================================================================
