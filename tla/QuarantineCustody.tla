------------------------- MODULE QuarantineCustody -------------------------
(***************************************************************************)
(* The life of quarantined messages between three stores that share no     *)
(* transaction: the row of app_quarantine_item, the raw MIME object in the *)
(* quarantine bucket, and the customer's mailbox.                          *)
(*                                                                         *)
(* Every request is a process whose state is where it stands between two   *)
(* awaits.  A database statement commits on its own                        *)
(* (execute_runtime_query opens one transaction per call), so one step     *)
(* here is one statement, one object-store call or one call of Cloudflare, *)
(* together with the code up to the next await.                            *)
(*                                                                         *)
(* An item stands for one message of one zone: the unique key              *)
(* (workspace_id, domain, message_id) allows it at most one row.           *)
(***************************************************************************)
EXTENDS Naturals, FiniteSets

CONSTANTS
    Items,       \* messages of the connected zones, one row each at most
    Deliveries,  \* custody uploads, one per Worker invocation
    Releases,    \* calls of POST /v1/quarantine/{id}/release and /whitelist
    Whitelists,  \* those of Releases that are /whitelist calls
    Deletes,     \* calls of DELETE /v1/quarantine/{id}
    Purges,      \* runners of the retention purge: the daily cron, list calls
    ItemOf,      \* the item each upload, release or delete names
    BytesOf,     \* the raw MIME each upload carries
    NoBytes,     \* "no raw copy"
    Crashes      \* may a process die, or a statement raise, between two steps?

Requests == Deliveries \cup Releases \cup Deletes

ASSUME RequestsAssumption ==
    /\ ItemOf \in [Requests -> Items]
    /\ Whitelists \subseteq Releases
ASSUME BytesAssumption == \A d \in Deliveries : BytesOf[d] # NoBytes
ASSUME CrashesAssumption == Crashes \in BOOLEAN

Bytes == {BytesOf[d] : d \in Deliveries}

VARIABLES
    status,     \* app_quarantine_item.status, "absent" before the row exists
    raw,        \* raw_content_hash while raw_storage_uri is set, else NoBytes
    preview,    \* do sender, subject or body_text hold mail content?
    expired,    \* is expires_at in the past?
    object,     \* the bucket: the bytes under workspace/item.eml
    delivered,  \* mailbox: the releases whose copy Cloudflare accepted
    acked,      \* the releases that were told so
    corrected,  \* app_feedback: a false_positive correction is recorded
    rules,      \* whitelist rules for the item's sender, by inserting call
    discarded,  \* history: a person or the retention gave the raw copy up
    upload,     \* upload[d]: step of the custody upload of delivery d
    release,    \* release[r]: step of release call r
    delete,     \* delete[e]: step of delete call e
    purge,      \* purge[p]: candidates still to do, those that had a URI, current
    rebuild     \* the preview rebuild: rows still to do, row being rewritten

row == <<status, raw, preview, expired>>
outcome == <<delivered, acked, corrected, rules>>
stores == <<row, object, outcome, discarded>>
requests == <<upload, release, delete, purge, rebuild>>
vars == <<stores, requests>>

Statuses == {"absent", "held", "releasing", "released", "deleted"}

UploadSteps  == {"check", "write", "record", "preview", "stored", "failed"}
ReleaseSteps == {"precheck", "lookup", "claim", "read", "send", "unclaim",
                 "settle", "correct", "drop", "forget", "findRule",
                 "addRule", "done"}
DeleteSteps  == {"lookup", "remove", "scrub", "done"}

TypeOK ==
    /\ status \in [Items -> Statuses]
    /\ raw \in [Items -> Bytes \cup {NoBytes}]
    /\ preview \in [Items -> BOOLEAN]
    /\ expired \in [Items -> BOOLEAN]
    /\ object \in [Items -> Bytes \cup {NoBytes}]
    /\ delivered \in [Items -> SUBSET Releases]
    /\ acked \in [Items -> SUBSET Releases]
    /\ corrected \in [Items -> BOOLEAN]
    /\ rules \in [Items -> SUBSET Releases]
    /\ discarded \in [Items -> BOOLEAN]
    /\ upload \in [Deliveries -> UploadSteps]
    /\ release \in [Releases -> ReleaseSteps]
    /\ delete \in [Deletes -> DeleteSteps]
    /\ purge \in [Purges -> [todo : SUBSET Items, stored : SUBSET Items,
                             current : SUBSET Items]]
    /\ rebuild \in [todo : SUBSET Items, current : SUBSET Items]

IdlePurge == [todo |-> {}, stored |-> {}, current |-> {}]
IdleRebuild == [todo |-> {}, current |-> {}]

Init ==
    /\ status = [i \in Items |-> "absent"]
    /\ raw = [i \in Items |-> NoBytes]
    /\ preview = [i \in Items |-> FALSE]
    /\ expired = [i \in Items |-> FALSE]
    /\ object = [i \in Items |-> NoBytes]
    /\ delivered = [i \in Items |-> {}]
    /\ acked = [i \in Items |-> {}]
    /\ corrected = [i \in Items |-> FALSE]
    /\ rules = [i \in Items |-> {}]
    /\ discarded = [i \in Items |-> FALSE]
    /\ upload = [d \in Deliveries |-> "check"]
    /\ release = [r \in Releases |->
                    IF r \in Whitelists THEN "precheck" ELSE "lookup"]
    /\ delete = [e \in Deletes |-> "lookup"]
    /\ purge = [p \in Purges |-> IdlePurge]
    /\ rebuild = IdleRebuild

-----------------------------------------------------------------------------
(* The row and the bucket by themselves.                                   *)

\* Mutant: the row gets the verdict's word for its status.
HoldVerdict(i) ==
    /\ status[i] = "absent"
    /\ status' = [status EXCEPT ![i] = "quarantine"]
    /\ preview' = [preview EXCEPT ![i] = TRUE]
    /\ UNCHANGED <<raw, expired, object, outcome, discarded>>

\* The INSERT of scan_email; a second one for the message breaks the unique key.
Hold(i) ==
    /\ status[i] = "absent"
    /\ status' = [status EXCEPT ![i] = "held"]
    /\ preview' = [preview EXCEPT ![i] = TRUE]
    /\ UNCHANGED <<raw, expired, object, outcome, discarded>>

\* expires_at passes.
Expire(i) ==
    /\ status[i] # "absent" /\ ~expired[i]
    /\ expired' = [expired EXCEPT ![i] = TRUE]
    /\ UNCHANGED <<status, raw, preview, object, outcome, discarded>>

\* store.delete, which succeeds on a missing object too.
Discard(i) ==
    /\ object' = [object EXCEPT ![i] = NoBytes]
    /\ discarded' = [discarded EXCEPT ![i] = TRUE]
    /\ UNCHANGED <<row, outcome>>

\* Mutant: only objects some row still points to expire.
LifecycleExpireKnown(i) ==
    expired[i] /\ raw[i] # NoBytes /\ object[i] # NoBytes /\ Discard(i)

\* The bucket's lifecycle rule: an object is written after its row, so it
\* is as old as the retention only when the row has expired.
LifecycleExpire(i) == expired[i] /\ object[i] # NoBytes /\ Discard(i)

\* The UPDATE to 'deleted' of a deletion and of a purge.
Scrub(i) ==
    /\ status' = [status EXCEPT ![i] = "deleted"]
    /\ raw' = [raw EXCEPT ![i] = NoBytes]
    /\ preview' = [preview EXCEPT ![i] = FALSE]
    /\ UNCHANGED <<expired, object, outcome, discarded>>

-----------------------------------------------------------------------------
(* upload_quarantine_content                                               *)

UploadGoto(d, step) == upload' = [upload EXCEPT ![d] = step]

\* The row is read once, and everything below relies on that read.  A held
\* row without a copy takes the bytes; the same bytes again are idempotent;
\* other bytes are a 409, a row that is not held a 404, a bad body a 400.
UploadCheck(d) ==
    /\ upload[d] = "check"
    /\ \/ status[ItemOf[d]] = "held" /\ raw[ItemOf[d]] = NoBytes /\ UploadGoto(d, "write")
       \/ status[ItemOf[d]] = "held" /\ raw[ItemOf[d]] = BytesOf[d] /\ UploadGoto(d, "stored")
       \/ UploadGoto(d, "failed")
    /\ UNCHANGED stores

\* Mutant: a write that fails is taken for done.
UploadWriteUnchecked(d) ==
    /\ upload[d] = "write"
    /\ UNCHANGED object \/ object' = [object EXCEPT ![ItemOf[d]] = BytesOf[d]]
    /\ UploadGoto(d, "record")
    /\ UNCHANGED <<row, outcome, discarded>>

\* The key is a function of the item, so a second write replaces the first.
UploadWrite(d) ==
    /\ upload[d] = "write"
    /\ object' = [object EXCEPT ![ItemOf[d]] = BytesOf[d]]
    /\ UploadGoto(d, "record")
    /\ UNCHANGED <<row, outcome, discarded>>

\* UPDATE ... WHERE raw_storage_uri IS NULL, whatever the status is by now;
\* the preview is rebuilt when the bytes have a readable body.
UploadRecord(d) ==
    /\ upload[d] = "record"
    /\ raw' = [raw EXCEPT ![ItemOf[d]] = IF @ = NoBytes THEN BytesOf[d] ELSE @]
    /\ UploadGoto(d, "preview") \/ UploadGoto(d, "stored")
    /\ UNCHANGED <<status, preview, expired, object, outcome, discarded>>

\* UPDATE body_text, again whatever the status is by now.
UploadPreview(d) ==
    /\ upload[d] = "preview"
    /\ preview' = [preview EXCEPT ![ItemOf[d]] = TRUE]
    /\ UploadGoto(d, "stored")
    /\ UNCHANGED <<status, raw, expired, object, outcome, discarded>>

\* The store or a statement raises, or the process dies.
UploadCrash(d) ==
    /\ Crashes /\ upload[d] \in {"write", "record", "preview"}
    /\ UploadGoto(d, "failed")
    /\ UNCHANGED stores

Upload(d) ==
    /\ UploadCheck(d) \/ UploadWrite(d) \/ UploadRecord(d) \/ UploadPreview(d)
    /\ UNCHANGED <<release, delete, purge, rebuild>>

-----------------------------------------------------------------------------
(* release_and_whitelist_item, _release_quarantine_item                    *)

Goto(r, step) == release' = [release EXCEPT ![r] = step]

\* A /whitelist call goes on to the sender rule, a /release call returns.
Returned(r) == IF r \in Whitelists THEN "findRule" ELSE "done"

WhitelistPrecheck(r) ==
    /\ release[r] = "precheck"
    /\ Goto(r, IF status[ItemOf[r]] \in {"held", "released"} THEN "lookup" ELSE "done")
    /\ UNCHANGED stores

\* Mutant: a refused whitelist call goes on to the sender rule.
LookupGoesOn(r) ==
    /\ release[r] = "lookup"
    /\ \/ status[ItemOf[r]] = "held" /\ raw[ItemOf[r]] # NoBytes /\ Goto(r, "claim")
       \/ Goto(r, Returned(r))
    /\ UNCHANGED stores

\* A released item is answered from its row; 409 when it is not held, when it
\* has no raw copy, and when the integration is not active or has no token.
ReleaseLookup(r) ==
    /\ release[r] = "lookup"
    /\ \/ status[ItemOf[r]] = "released" /\ Goto(r, Returned(r))
       \/ status[ItemOf[r]] = "held" /\ raw[ItemOf[r]] # NoBytes /\ Goto(r, "claim")
       \/ status[ItemOf[r]] # "released" /\ Goto(r, "done")
    /\ UNCHANGED stores

\* Mutant: the claim is not conditional.
ClaimAlways(r) ==
    /\ release[r] = "claim"
    /\ status' = [status EXCEPT ![ItemOf[r]] = "releasing"]
    /\ Goto(r, "read")
    /\ UNCHANGED <<raw, preview, expired, object, outcome, discarded>>

\* UPDATE ... SET status = 'releasing' WHERE status = 'held' RETURNING id
ReleaseClaim(r) ==
    /\ release[r] = "claim"
    /\ IF status[ItemOf[r]] = "held"
         THEN status' = [status EXCEPT ![ItemOf[r]] = "releasing"] /\ Goto(r, "read")
         ELSE UNCHANGED status /\ Goto(r, "done")
    /\ UNCHANGED <<raw, preview, expired, object, outcome, discarded>>

\* Mutant: a failed read ends the call without giving the claim back.
ReadFailureEnds(r) ==
    /\ release[r] = "read"
    /\ (object[ItemOf[r]] # NoBytes /\ Goto(r, "send")) \/ Goto(r, "done")
    /\ UNCHANGED stores

\* Nothing to send when the object is missing or the store, the token or the
\* destination's check fails.
ReleaseRead(r) ==
    /\ release[r] = "read"
    /\ (object[ItemOf[r]] # NoBytes /\ Goto(r, "send")) \/ Goto(r, "unclaim")
    /\ UNCHANGED stores

\* Mutant: the answer of the delivery is not looked at.
SendAnswerIgnored(r) ==
    /\ release[r] = "send"
    /\ \/ /\ delivered' = [delivered EXCEPT ![ItemOf[r]] = @ \cup {r}]
          /\ acked' = [acked EXCEPT ![ItemOf[r]] = @ \cup {r}]
       \/ UNCHANGED <<delivered, acked>>
    /\ Goto(r, "settle")
    /\ UNCHANGED <<row, object, corrected, rules, discarded>>

\* send_raw_email: Cloudflare accepts the copy and says so, accepts it and the
\* answer is lost or late (httpx.HTTPError), or refuses it.
ReleaseSend(r) ==
    LET Accepted == delivered' = [delivered EXCEPT ![ItemOf[r]] = @ \cup {r}] IN
    /\ release[r] = "send"
    /\ \/ /\ Accepted
          /\ acked' = [acked EXCEPT ![ItemOf[r]] = @ \cup {r}]
          /\ Goto(r, "settle")
       \/ /\ Accepted \/ UNCHANGED delivered
          /\ UNCHANGED acked
          /\ Goto(r, "unclaim")
    /\ UNCHANGED <<row, object, corrected, rules, discarded>>

\* Mutant: the message is held again after its delivery.
EndHeld(r) ==
    /\ release[r] \in {"unclaim", "settle"}
    /\ status' = [status EXCEPT ![ItemOf[r]] = "held"]
    /\ Goto(r, IF release[r] = "settle" THEN "correct" ELSE "done")
    /\ UNCHANGED <<raw, preview, expired, object, outcome, discarded>>

\* The UPDATE that ends the claim, not conditional on 'releasing'.
ReleaseEnd(r) ==
    /\ \/ /\ release[r] = "unclaim"
          /\ status' = [status EXCEPT ![ItemOf[r]] = "held"]
          /\ Goto(r, "done")
       \/ /\ release[r] = "settle"
          /\ status' = [status EXCEPT ![ItemOf[r]] = "released"]
          /\ Goto(r, "correct")
    /\ UNCHANGED <<raw, preview, expired, object, outcome, discarded>>

\* The correction is unique per message and a failed INSERT is swallowed.
ReleaseCorrect(r) ==
    /\ release[r] = "correct"
    /\ corrected' = [corrected EXCEPT ![ItemOf[r]] = TRUE] \/ (Crashes /\ UNCHANGED corrected)
    /\ Goto(r, "drop")
    /\ UNCHANGED <<row, object, delivered, acked, rules, discarded>>

\* The raw copy goes, best effort: a failure skips the UPDATE that follows.
ReleaseDrop(r) ==
    /\ release[r] = "drop"
    /\ \/ object' = [object EXCEPT ![ItemOf[r]] = NoBytes] /\ Goto(r, "forget")
       \/ UNCHANGED object /\ Goto(r, Returned(r))
    /\ UNCHANGED <<row, outcome, discarded>>

ReleaseForget(r) ==
    /\ release[r] = "forget"
    /\ raw' = [raw EXCEPT ![ItemOf[r]] = NoBytes]
    /\ Goto(r, Returned(r))
    /\ UNCHANGED <<status, preview, expired, object, outcome, discarded>>

\* The sender rule: looked up, then inserted; no unique key protects it.
FindRule(r) ==
    /\ release[r] = "findRule"
    /\ Goto(r, IF rules[ItemOf[r]] = {} THEN "addRule" ELSE "done")
    /\ UNCHANGED stores

AddRule(r) ==
    /\ release[r] = "addRule"
    /\ rules' = [rules EXCEPT ![ItemOf[r]] = @ \cup {r}]
    /\ Goto(r, "done")
    /\ UNCHANGED <<row, object, delivered, acked, corrected, discarded>>

\* The API process dies or a statement raises: the call ends where it stands.
ReleaseCrash(r) ==
    /\ Crashes /\ release[r] \notin {"precheck", "lookup", "done"}
    /\ Goto(r, "done")
    /\ UNCHANGED stores

Release(r) ==
    /\ \/ WhitelistPrecheck(r) \/ ReleaseLookup(r) \/ ReleaseClaim(r) \/ ReleaseRead(r)
       \/ ReleaseSend(r) \/ ReleaseEnd(r) \/ ReleaseCorrect(r) \/ ReleaseDrop(r)
       \/ ReleaseForget(r) \/ FindRule(r) \/ AddRule(r)
    /\ UNCHANGED <<upload, delete, purge, rebuild>>

-----------------------------------------------------------------------------
(* delete_quarantine_item                                                  *)

DeleteGoto(e, step) == delete' = [delete EXCEPT ![e] = step]

DeleteLookup(e) ==
    /\ delete[e] = "lookup"
    /\ DeleteGoto(e, IF status[ItemOf[e]] = "absent" THEN "done"
                     ELSE IF raw[ItemOf[e]] = NoBytes THEN "scrub" ELSE "remove")
    /\ UNCHANGED stores

\* The object first; when the store refuses (503) the row is not touched.
DeleteObject(e) ==
    /\ delete[e] = "remove"
    /\ \/ Discard(ItemOf[e]) /\ DeleteGoto(e, "scrub")
       \/ UNCHANGED stores /\ DeleteGoto(e, "done")

\* UPDATE ... SET status = 'deleted', whatever the status is by now.
DeleteScrub(e) ==
    /\ delete[e] = "scrub"
    /\ Scrub(ItemOf[e])
    /\ DeleteGoto(e, "done")

DeleteCrash(e) ==
    /\ Crashes /\ delete[e] = "scrub"
    /\ DeleteGoto(e, "done")
    /\ UNCHANGED stores

Delete(e) ==
    /\ DeleteLookup(e) \/ DeleteObject(e) \/ DeleteScrub(e)
    /\ UNCHANGED <<upload, release, purge, rebuild>>

-----------------------------------------------------------------------------
(* purge_expired_quarantine                                                *)

Idle(p) == purge[p].todo = {} /\ purge[p].current = {}

\* Mutant: a pass takes the rows with a raw copy only.
PurgeSelectStored(p) ==
    LET due == {i \in Items : expired[i] /\ status[i] = "held" /\ raw[i] # NoBytes} IN
    /\ Idle(p)
    /\ purge' = [purge EXCEPT ![p] = [todo |-> due, stored |-> due, current |-> {}]]
    /\ UNCHANGED stores

PurgeSelect(p) ==
    LET due == {i \in Items : expired[i] /\ status[i] = "held"} IN
    /\ Idle(p)
    /\ purge' = [purge EXCEPT ![p] =
         [todo |-> due, stored |-> {i \in due : raw[i] # NoBytes}, current |-> {}]]
    /\ UNCHANGED stores

\* The object goes first, where the row had a URI when it was selected.
PurgeObject(p, i) ==
    /\ purge[p].current = {}
    /\ i \in purge[p].todo
    /\ IF i \in purge[p].stored THEN Discard(i) ELSE UNCHANGED stores
    /\ purge' = [purge EXCEPT ![p] =
         [todo |-> @.todo \ {i}, stored |-> @.stored, current |-> {i}]]

\* The store refuses: the row stays held for the next pass.
PurgeSkip(p, i) ==
    /\ purge[p].current = {}
    /\ i \in purge[p].todo \cap purge[p].stored
    /\ purge' = [purge EXCEPT ![p].todo = @ \ {i}]
    /\ UNCHANGED stores

\* UPDATE ... SET status = 'deleted' WHERE status = 'held' RETURNING id
PurgeScrub(p, i) ==
    /\ i \in purge[p].current
    /\ IF status[i] = "held" THEN Scrub(i) ELSE UNCHANGED stores
    /\ purge' = [purge EXCEPT ![p].current = {}]

PurgeCrash(p) ==
    /\ Crashes /\ ~Idle(p)
    /\ purge' = [purge EXCEPT ![p] = IdlePurge]
    /\ UNCHANGED stores

-----------------------------------------------------------------------------
(* rebuild_previews, a maintenance command                                 *)

RebuildSelect ==
    /\ rebuild = IdleRebuild
    /\ rebuild' = [todo |-> {i \in Items : status[i] = "held" /\ raw[i] # NoBytes},
                   current |-> {}]
    /\ UNCHANGED stores

\* Unreadable, or nothing to change: on to the next row.
RebuildRead(i) ==
    /\ rebuild.current = {} /\ i \in rebuild.todo
    /\ \E found \in SUBSET {i} :
          /\ found # {} => object[i] # NoBytes
          /\ rebuild' = [todo |-> rebuild.todo \ {i}, current |-> found]
    /\ UNCHANGED stores

\* Mutant: the preview is written whatever the status is by now.
RebuildWriteAlways(i) ==
    /\ i \in rebuild.current
    /\ preview' = [preview EXCEPT ![i] = TRUE]
    /\ rebuild' = [todo |-> rebuild.todo, current |-> {}]
    /\ UNCHANGED <<status, raw, expired, object, outcome, discarded>>

\* UPDATE body_text ... WHERE status = 'held'
RebuildWrite(i) ==
    /\ i \in rebuild.current
    /\ preview' = [preview EXCEPT ![i] = @ \/ status[i] = "held"]
    /\ rebuild' = [todo |-> rebuild.todo, current |-> {}]
    /\ UNCHANGED <<status, raw, expired, object, outcome, discarded>>

-----------------------------------------------------------------------------
PurgeStep(p) ==
    /\ \/ PurgeSelect(p) \/ PurgeCrash(p)
       \/ \E i \in Items : PurgeObject(p, i) \/ PurgeSkip(p, i) \/ PurgeScrub(p, i)
    /\ UNCHANGED <<upload, release, delete, rebuild>>

Rebuild ==
    /\ RebuildSelect \/ \E i \in Items : RebuildRead(i) \/ RebuildWrite(i)
    /\ UNCHANGED <<upload, release, delete, purge>>

\* A request dies where it stands.
Crash ==
    \/ \E r \in Releases : ReleaseCrash(r) /\ UNCHANGED <<upload, delete, purge, rebuild>>
    \/ \E e \in Deletes : DeleteCrash(e) /\ UNCHANGED <<upload, release, purge, rebuild>>

\* What happens to held items beside scans and uploads.
CustodyNext ==
    \/ \E i \in Items : (Expire(i) \/ LifecycleExpire(i)) /\ UNCHANGED requests
    \/ \E r \in Releases : Release(r)
    \/ \E e \in Deletes : Delete(e)
    \/ \E p \in Purges : PurgeStep(p)
    \/ Rebuild
    \/ Crash

\* A scan holds the item, a Worker uploads its raw copy.
Next ==
    \/ CustodyNext
    \/ \E i \in Items : Hold(i) /\ UNCHANGED requests
    \/ \E d \in Deliveries : \/ Upload(d)
                             \/ UploadCrash(d) /\ UNCHANGED <<release, delete, purge, rebuild>>

Spec == Init /\ [][Next]_vars

\* A request that is being served goes on; the purge runs every day and on
\* every listing, and a bucket that refuses a deletion does not do so for
\* ever; the bucket applies its lifecycle rule.
Fairness ==
    /\ \A d \in Deliveries : WF_vars(Upload(d))
    /\ \A r \in Releases : WF_vars(Release(r))
    /\ \A e \in Deletes : WF_vars(Delete(e))
    /\ \A p \in Purges :
         /\ WF_vars(PurgeSelect(p) /\ UNCHANGED <<upload, release, delete, rebuild>>)
         /\ \A i \in Items :
              /\ SF_vars(PurgeObject(p, i) /\ UNCHANGED <<upload, release, delete, rebuild>>)
              /\ WF_vars(PurgeScrub(p, i) /\ UNCHANGED <<upload, release, delete, rebuild>>)
    /\ \A i \in Items : WF_vars(LifecycleExpire(i) /\ UNCHANGED requests)

FairSpec == Spec /\ Fairness

-----------------------------------------------------------------------------
(* What custody promises.                                                  *)

\* The release holds the item's claim.
Claims(r, i) ==
    ItemOf[r] = i /\ release[r] \in {"read", "send", "unclaim", "settle"}

\* The upload has read the row and will still write something.
Uploading(d, i) ==
    ItemOf[d] = i /\ upload[d] \in {"write", "record", "preview"}

\* Two release calls never work on one message at once: the conditional
\* UPDATE held -> releasing lets one through, and nothing else than that
\* call (a deletion, a purge, an upload) makes the row claimable meanwhile.
OneReleaseAtATime ==
    \A i \in Items : \A r, s \in Releases : Claims(r, i) /\ Claims(s, i) => r = s

\* What says "delivered" is right: a row marked released, a false-positive
\* correction, a whitelist rule for the sender, only after Cloudflare
\* acknowledged the copy, whatever ran at the same time.
MarkedDeliveredIsDelivered ==
    \A i \in Items :
        status[i] = "released" \/ corrected[i] \/ rules[i] # {} => acked[i] # {}

\* A raw copy the row points to is there until the message is delivered or
\* somebody gives it up: no order of uploads, failed releases and crashes
\* leaves a held message whose release can never succeed.
StoredUntilDelivered ==
    \A i \in Items :
        raw[i] # NoBytes /\ acked[i] = {} /\ ~discarded[i] => object[i] # NoBytes

\* Once Cloudflare has acknowledged a delivery the message is never sent
\* again and never held again, even when the call that sent it dies before
\* it marks the row, or the item is deleted under it.
AcknowledgedIsFinal ==
    [][\A i \in Items : acked[i] # {} =>
          /\ delivered'[i] = delivered[i]
          /\ acked'[i] = acked[i]
          /\ status'[i] # "held"]_vars

\* A deletion that no older request can still overwrite is final: without a
\* release holding the claim or an upload under way, a deleted row stays
\* deleted and gets back neither a raw copy nor a preview.
SettledDeletionIsFinal ==
    [][\A i \in Items :
          /\ status[i] = "deleted"
          /\ \A r \in Releases : ~Claims(r, i)
          /\ \A d \in Deliveries : ~Uploading(d, i)
          => /\ status'[i] = "deleted"
             /\ raw'[i] \in {raw[i], NoBytes}
             /\ preview'[i] => preview[i]]_vars

\* A claimed message does not stay in limbo while no process dies: the call
\* that holds it ends, and the row is held, released or deleted.
ReleaseSettles == \A i \in Items : status[i] = "releasing" ~> status[i] # "releasing"

\* The retention is applied: in the end an expired item is released or
\* deleted for good, although a purge may find it claimed, may be refused by
\* the bucket, and although a failed release holds the item again.
RetentionApplied ==
    \A i \in Items : expired[i] ~> [](status[i] \in {"released", "deleted"})

\* No raw copy outlives the retention, those left behind by an upload that
\* crossed a deletion or by a release that could not drop them included.
RawCopyExpires == \A i \in Items : expired[i] ~> [](object[i] = NoBytes)

-----------------------------------------------------------------------------
(* The inductive invariant behind the safety properties.                   *)

\* The row of a claimed item says so, unless a deletion has overwritten it.
ClaimedStatus ==
    \A i \in Items : \A r \in Releases :
        Claims(r, i) => status[i] \in {"releasing", "deleted"}

\* After the acknowledgement nobody can claim, send or give back the claim.
AckedStatus ==
    \A i \in Items : acked[i] # {} =>
        /\ status[i] \in {"releasing", "released", "deleted"}
        /\ \A r \in Releases : ItemOf[r] = i => release[r] \notin {"read", "send", "unclaim"}

\* A call past its acknowledged send, or on its way to the sender rule.
PastSend ==
    \A r \in Releases :
        release[r] \in {"settle", "correct", "drop", "forget", "findRule", "addRule"}
        => acked[ItemOf[r]] # {}

\* Between writing the object and recording it, the object is there.
WrittenBeforeRecorded ==
    \A d \in Deliveries :
        LET i == ItemOf[d] IN
        upload[d] = "record" /\ acked[i] = {} /\ ~discarded[i] => object[i] # NoBytes

\* What every step preserves: the safety properties and what they rest on.
CustodyInv ==
    /\ OneReleaseAtATime
    /\ ClaimedStatus
    /\ AckedStatus
    /\ PastSend
    /\ MarkedDeliveredIsDelivered
    /\ WrittenBeforeRecorded
    /\ StoredUntilDelivered

-----------------------------------------------------------------------------
(* What the documents say and the code does not keep.                      *)

\* docs/data-platform/rgpd-register.md:41
DeletionIsIrreversible ==
    [][\A i \in Items : status[i] = "deleted" => status'[i] = "deleted"]_vars

\* deploy/DEPLOYMENT_BLOCKERS.md:102-103
DeletedIsScrubbed ==
    \A i \in Items : status[i] = "deleted" => ~preview[i] /\ raw[i] = NoBytes

\* deploy/DEPLOYMENT_BLOCKERS.md:99-100
DeliveredAtMostOnce ==
    \A i \in Items : \A r, s \in delivered[i] : r = s

\* The 409 of quarantine.py:108
ReleasingIsInProgress ==
    \A i \in Items : status[i] = "releasing" => \E r \in Releases : Claims(r, i)

\* tests/unit/app/test_email_scan_routes.py:322
StoredBytesAgree ==
    \A d, e \in Deliveries :
        /\ ItemOf[d] = ItemOf[e]
        /\ upload[d] = "stored" /\ upload[e] = "stored"
        => BytesOf[d] = BytesOf[e]
=============================================================================
