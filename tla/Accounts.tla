------------------------------ MODULE Accounts ------------------------------
(***************************************************************************)
(* The account of one member: identity, workspace and membership, and what *)
(* the workspace owns.  The first request of a member creates workspace    *)
(* and membership; an erasure, asked for by the member or by a platform    *)
(* administrator, removes the connected domains, the stored raw copies,    *)
(* the rows and the identity, one committed statement after the other,     *)
(* while other requests and arriving mail go on.                           *)
(*                                                                         *)
(* A step is one statement, or one call to Cloudflare or to the bucket;    *)
(* the tables that no property tells apart are one step.                   *)
(***************************************************************************)
EXTENDS Naturals

CONSTANTS
    Visits,         \* requests of the signed-in member
    SelfErasures,   \* DELETE /v1/auth/account
    AdminErasures,  \* DELETE /v1/admin/accounts
    Mails,          \* suspect messages that arrive for a connected domain
    Reports,        \* messages forwarded to the member's report alias
    Domains,
    MaxWorkspaces,  \* bound: workspaces created, the first one included
    MaxFailures     \* bound: statements that raise, or deaths of the API

Erasures == SelfErasures \cup AdminErasures
Members == Visits \cup SelfErasures
Actors == Members \cup AdminErasures \cup Mails \cup Reports

ASSUME AccountsAssumption ==
    /\ MaxWorkspaces \in Nat \ {0} /\ MaxFailures \in Nat
    /\ Visits \cap (Erasures \cup Mails) = {} /\ Erasures \cap Mails = {}
    /\ SelfErasures \cap AdminErasures = {}
    /\ Reports \cap (Members \cup AdminErasures \cup Mails) = {}

\* Identifiers are fresh UUIDs: the n-th workspace is n.  NoWorkspace is NULL,
\* and rows that were deleted are in Deleted.
Workspaces == 1 .. MaxWorkspaces
NoWorkspace == 0
Deleted == MaxWorkspaces + 1
Home == 1      \* the workspace an established member already has

VARIABLES
    identity,   \* rows of the auth service: "session", "account", "user"
    workspace,  \* app_workspace (owner_auth_user_id is unique)
    member,     \* app_workspace_membership.workspace_id (auth_user_id is unique)
    made,       \* how many workspaces were created
    legacy,     \* workspace of the rows recorded for the address before it had one
    domain,     \* domain[z]: cloudflare_integration.status, of Home
    items,      \* items[w]: a quarantined message: no row, a row, a row with its URI
    copies,     \* workspaces with a raw copy in the bucket
    rows,       \* workspaces with rows in the other tables
    evidence,   \* workspaces with a reported email in the bucket
    act,        \* act[a]: step of the request, its workspace, the domains to remove
    failures,
    crossed     \* history: an erasure that deletes had another request beside it

stores == <<items, copies, rows, evidence>>
tenancy == <<workspace, member, made>>
accountVars == <<identity, tenancy, legacy, domain, stores, act, failures, crossed>>

Idle(w) == [at |-> "idle", of |-> w, todo |-> {}]
Ended == {"idle", "done", "refused", "failed"}

\* A member who uses the application, or one who has signed up and has not.
AccountInit ==
    /\ identity = {"session", "account", "user"}
    /\ \/ /\ workspace = Home /\ member = Home /\ made = 1 /\ legacy = Home
          /\ domain \in [Domains -> {"provisioning", "active"}]
          /\ \E i \in {"none", "stored"} :
               /\ items = [w \in Workspaces |-> IF w = Home THEN i ELSE "none"]
               /\ copies = IF i = "stored" THEN {Home} ELSE {}
          /\ rows = {Home}
       \/ /\ workspace = NoWorkspace /\ member = NoWorkspace /\ made = 0
          /\ legacy = NoWorkspace
          /\ domain = [z \in Domains |-> "gone"]
          /\ items = [w \in Workspaces |-> "none"] /\ copies = {} /\ rows = {}
    /\ act = [a \in Actors |-> Idle(NoWorkspace)] /\ evidence = {}
    /\ failures = 0 /\ crossed = FALSE

Moves(a, step) == act' = [act EXCEPT ![a].at = step]
MovesIn(a, step, w) == act' = [act EXCEPT ![a].at = step, ![a].of = w]

-----------------------------------------------------------------------------
(* get_current_user, _ensure_workspace_membership, ingest_reported_email   *)

\* Without a session the auth service says 401.
Authenticate(a) ==
    /\ a \in Members /\ act[a].at = "idle"
    /\ Moves(a, IF "session" \in identity THEN "look" ELSE "refused")
    /\ UNCHANGED <<identity, tenancy, legacy, domain, stores>>

\* What the request is for, once its workspace is known.
Purpose(a) == IF a \in SelfErasures THEN "select" ELSE "work"

\* membership JOIN workspace
LookMember(a) ==
    /\ act[a].at = "look"
    /\ IF member # NoWorkspace /\ member = workspace
         THEN MovesIn(a, Purpose(a), member)
         ELSE Moves(a, "create")
    /\ UNCHANGED <<identity, tenancy, legacy, domain, stores>>

\* INSERT INTO app_workspace; a second one of this owner breaks the unique key.
CreateWorkspace(a) ==
    /\ act[a].at = "create"
    /\ IF workspace # NoWorkspace
         THEN Moves(a, "refused") /\ UNCHANGED tenancy
         ELSE /\ made < MaxWorkspaces
              /\ made' = made + 1 /\ workspace' = made'
              /\ MovesIn(a, "join", made')
              /\ UNCHANGED member
    /\ UNCHANGED <<identity, legacy, domain, stores>>

\* INSERT INTO app_workspace_membership: one per user, in an existing workspace.
Join(a) ==
    /\ act[a].at = "join"
    /\ IF member = NoWorkspace /\ workspace = act[a].of
         THEN member' = act[a].of /\ Moves(a, "adopt")
         ELSE Moves(a, "refused") /\ UNCHANGED member
    /\ UNCHANGED <<identity, workspace, made, legacy, domain, stores>>

\* _backfill_workspace_owned_rows
Adopt(a) ==
    /\ act[a].at = "adopt"
    /\ legacy' = IF legacy = NoWorkspace THEN act[a].of ELSE legacy
    /\ Moves(a, Purpose(a))
    /\ UNCHANGED <<identity, tenancy, domain, stores>>

\* ingest_reported_email: the alias names the workspace of the member who was
\* shown it, and is refused without a membership.
ReportLook(a) ==
    /\ a \in Reports /\ act[a].at = "idle"
    /\ \E w \in 1 .. made :
         IF member = w THEN MovesIn(a, "evidence", w) ELSE Moves(a, "refused")
    /\ UNCHANGED <<identity, tenancy, legacy, domain, stores>>

\* The sanitized message is in the bucket before its row is inserted.
ReportWrite(a) ==
    /\ act[a].at = "evidence"
    /\ evidence' = evidence \cup {act[a].of}
    /\ Moves(a, "work")
    /\ UNCHANGED <<identity, tenancy, legacy, domain, items, copies, rows>>

\* The request writes a row of the workspace it found; no key says it exists.
Work(a) ==
    /\ act[a].at = "work"
    /\ rows' = rows \cup {act[a].of}
    /\ Moves(a, "done")
    /\ UNCHANGED <<identity, tenancy, legacy, domain, items, copies, evidence>>

Request(a) ==
    \/ Authenticate(a) \/ LookMember(a) \/ CreateWorkspace(a) \/ Join(a)
    \/ Adopt(a) \/ ReportLook(a) \/ ReportWrite(a) \/ Work(a)

-----------------------------------------------------------------------------
(* Mail for a connected domain: scan_email, upload_quarantine_content      *)

\* Either request finds the workspace by the secret of the domain.
MailAuthenticate(a) ==
    /\ a \in Mails /\ act[a].at \in {"idle", "held"}
    /\ IF \E z \in Domains : domain[z] = "active"
         THEN MovesIn(a, IF act[a].at = "idle" THEN "hold" ELSE "check", Home)
         ELSE Moves(a, "refused")
    /\ UNCHANGED <<identity, tenancy, legacy, domain, stores>>

MailHold(a) ==
    /\ act[a].at = "hold"
    /\ items' = [items EXCEPT ![act[a].of] = IF @ = "none" THEN "held" ELSE @]
    /\ Moves(a, "journal")
    /\ UNCHANGED <<identity, tenancy, legacy, domain, copies, rows, evidence>>

\* The event of the journal, after which the Worker uploads the message.
MailJournal(a) ==
    /\ act[a].at = "journal"
    /\ rows' = rows \cup {act[a].of}
    /\ Moves(a, "held")
    /\ UNCHANGED <<identity, tenancy, legacy, domain, items, copies, evidence>>

MailCheck(a) ==
    /\ act[a].at = "check"
    /\ Moves(a, CASE items[act[a].of] = "none" -> "refused"
                  [] items[act[a].of] = "held" -> "write"
                  [] OTHER -> "done")
    /\ UNCHANGED <<identity, tenancy, legacy, domain, stores>>

MailWrite(a) ==
    /\ act[a].at = "write"
    /\ copies' = copies \cup {act[a].of}
    /\ Moves(a, "record")
    /\ UNCHANGED <<identity, tenancy, legacy, domain, items, rows, evidence>>

\* UPDATE ... WHERE raw_storage_uri IS NULL: no row, no record.
MailRecord(a) ==
    /\ act[a].at = "record"
    /\ items' = [items EXCEPT ![act[a].of] = IF @ = "held" THEN "stored" ELSE @]
    /\ Moves(a, "done")
    /\ UNCHANGED <<identity, tenancy, legacy, domain, copies, rows, evidence>>

Mail(a) ==
    \/ MailAuthenticate(a) \/ MailHold(a) \/ MailJournal(a)
    \/ MailCheck(a) \/ MailWrite(a) \/ MailRecord(a)

-----------------------------------------------------------------------------
(* erase_customer_account, erase_account                                   *)

\* SELECT of the user: 404 without.
AdminFind(e) ==
    /\ e \in AdminErasures /\ act[e].at = "idle"
    /\ Moves(e, IF "user" \in identity THEN "find" ELSE "refused")
    /\ UNCHANGED <<identity, tenancy, legacy, domain, stores>>

\* SELECT of the membership; a user without a workspace loses only the identity.
AdminLook(e) ==
    /\ act[e].at = "find"
    /\ IF member # NoWorkspace /\ member = workspace
         THEN MovesIn(e, "select", member)
         ELSE Moves(e, "session")
    /\ UNCHANGED <<identity, tenancy, legacy, domain, stores>>

Connected(w) == {z \in Domains : w = Home /\ domain[z] # "gone"}

\* 409 while a domain is being provisioned.
EraseSelect(e) ==
    /\ act[e].at = "select"
    /\ IF \E z \in Connected(act[e].of) : domain[z] = "provisioning"
         THEN Moves(e, "refused")
         ELSE act' = [act EXCEPT ![e].at = "teardown", ![e].todo = Connected(act[e].of)]
    /\ UNCHANGED <<identity, tenancy, legacy, domain, stores>>

\* teardown_cloudflare, in one step (CloudflareIntegration has its own): 404 when
\* the row is gone, 409 while it is provisioned, 502 when Cloudflare refuses.
EraseTeardown(e) ==
    /\ act[e].at = "teardown"
    /\ \E z \in act[e].todo :
         \/ /\ domain[z] \in {"active", "error"}
            /\ domain' = [domain EXCEPT ![z] = "gone"]
            /\ act' = [act EXCEPT ![e].todo = @ \ {z}]
         \/ Moves(e, "refused") /\ UNCHANGED domain
    /\ UNCHANGED <<identity, tenancy, legacy, stores>>

\* Mutant: the rows are deleted, and the copies left to the lifecycle rule.
EraseListNone(e) ==
    /\ act[e].at = "teardown" /\ act[e].todo = {}
    /\ Moves(e, "items")
    /\ UNCHANGED <<identity, tenancy, legacy, domain, stores>>

\* _drop_stored_quarantine_copies: the copies some row points to.
EraseList(e) ==
    /\ act[e].at = "teardown" /\ act[e].todo = {}
    /\ Moves(e, IF items[act[e].of] = "stored" THEN "drop" ELSE "items")
    /\ UNCHANGED <<identity, tenancy, legacy, domain, stores>>

\* store.delete; a failure is a 503.
EraseDrop(e) ==
    /\ act[e].at = "drop"
    /\ \/ copies' = copies \ {act[e].of} /\ Moves(e, "items")
       \/ Moves(e, "refused") /\ UNCHANGED copies
    /\ UNCHANGED <<identity, tenancy, legacy, domain, items, rows, evidence>>

\* WORKSPACE_TABLES, in their order: the quarantine among the first,
EraseItems(e) ==
    /\ act[e].at = "items"
    /\ items' = [items EXCEPT ![act[e].of] = "none"]
    /\ Moves(e, "rows")
    /\ UNCHANGED <<identity, tenancy, legacy, domain, copies, rows, evidence>>

\* the other tables, with the adopted rows,
EraseRest(e) ==
    /\ act[e].at = "rows"
    /\ rows' = rows \ {act[e].of}
    /\ legacy' = IF legacy = act[e].of THEN Deleted ELSE legacy
    /\ Moves(e, "domains")
    /\ UNCHANGED <<identity, tenancy, domain, items, copies, evidence>>

\* whatever integrations there are by now,
EraseDomains(e) ==
    /\ act[e].at = "domains"
    /\ domain' = [z \in Domains |-> IF z \in Connected(act[e].of) THEN "gone" ELSE domain[z]]
    /\ Moves(e, "member")
    /\ UNCHANGED <<identity, tenancy, legacy, stores>>

\* and the membership last,
EraseMember(e) ==
    /\ act[e].at = "member"
    /\ member' = IF member = act[e].of THEN NoWorkspace ELSE member
    /\ Moves(e, "workspace")
    /\ UNCHANGED <<identity, workspace, made, legacy, domain, stores>>

\* Mutant: the list of tables is taken for all there is.
EraseWorkspaceNot(e) ==
    /\ act[e].at = "workspace"
    /\ Moves(e, "session")
    /\ UNCHANGED <<identity, tenancy, legacy, domain, stores>>

\* The workspace; a membership made since goes with it (ON DELETE CASCADE).
EraseWorkspace(e) ==
    /\ act[e].at = "workspace"
    /\ workspace' = IF workspace = act[e].of THEN NoWorkspace ELSE workspace
    /\ member' = IF member = act[e].of THEN NoWorkspace ELSE member
    /\ Moves(e, "session")
    /\ UNCHANGED <<identity, made, legacy, domain, stores>>

\* The identity: sessions, accounts, the user.
EraseIdentity(e) ==
    /\ \/ act[e].at = "session" /\ identity' = identity \ {"session"} /\ Moves(e, "account")
       \/ act[e].at = "account" /\ identity' = identity \ {"account"} /\ Moves(e, "user")
       \/ act[e].at = "user" /\ identity' = {} /\ Moves(e, "done")
    /\ UNCHANGED <<tenancy, legacy, domain, stores>>

Erase(e) ==
    \/ AdminFind(e) \/ AdminLook(e) \/ EraseSelect(e) \/ EraseTeardown(e) \/ EraseList(e)
    \/ EraseDrop(e) \/ EraseItems(e) \/ EraseRest(e) \/ EraseDomains(e) \/ EraseMember(e)
    \/ EraseWorkspace(e) \/ EraseIdentity(e)

-----------------------------------------------------------------------------
\* A statement raises, or the API dies: the request ends where it is.
Fails(a) ==
    /\ failures < MaxFailures /\ act[a].at \notin Ended
    /\ failures' = failures + 1
    /\ Moves(a, "failed")
    /\ UNCHANGED <<identity, tenancy, legacy, domain, stores>>

\* The background task of a setup ends, either way.
Provisioned(z) ==
    /\ domain[z] = "provisioning"
    /\ domain' = [domain EXCEPT ![z] = "active"] \/ domain' = [domain EXCEPT ![z] = "error"]
    /\ UNCHANGED <<identity, tenancy, legacy, stores, act, failures>>

\* The member signs in again, at the auth service.
SignIn ==
    /\ {"account", "user"} \subseteq identity /\ "session" \notin identity
    /\ identity' = identity \cup {"session"}
    /\ UNCHANGED <<tenancy, legacy, domain, stores, act, failures>>

Deleting == {"drop", "items", "rows", "domains", "member", "workspace", "session",
             "account", "user"}

\* After a step, an erasure that has listed the copies, and maybe begun to delete,
\* has beside it a request that does not erase the same workspace; or one that
\* creates a workspace while an erasure has chosen another.
Crossing ==
    \E e \in Erasures, a \in Actors :
        \/ /\ act'[e].at \in Deleting /\ act'[a].at \notin Ended
           /\ ~(act'[a].of = act'[e].of /\ act'[a].at \in Deleting \cup {"select", "teardown"})
        \/ act'[e].at \in {"select", "teardown"} /\ act'[a].at = "join"

AccountNext ==
    /\ \/ SignIn
       \/ \E z \in Domains : Provisioned(z)
       \/ \E a \in Actors : Fails(a)
       \/ \E a \in Actors : (Request(a) \/ Mail(a) \/ Erase(a)) /\ UNCHANGED failures
    /\ crossed' = (crossed \/ Crossing)

AccountSpec == AccountInit /\ [][AccountNext]_accountVars

-----------------------------------------------------------------------------
(* What an erasure promises.                                               *)

\* When an erasure has answered nothing of the account is left but the evidence
\* of reported emails, which no erasure deletes: whatever requests and mail met
\* it while the domains were torn down, wherever an earlier erasure stopped, and
\* if two erase at once.  Only requests under way once the copies are listed, or
\* that create another workspace, may leave something else behind; and a raw
\* copy that its row never named, and rows that were not adopted, may stay when
\* a statement failed before.
OnlyEvidenceOutlives ==
    \A e \in Erasures :
        ~crossed /\ act[e].at = "done" /\ act[e].of # NoWorkspace =>
            /\ identity = {} /\ workspace = NoWorkspace /\ member = NoWorkspace
            /\ rows = {} /\ \A w \in Workspaces : items[w] = "none"
            /\ \A z \in Domains : domain[z] = "gone"
            /\ failures = 0 => copies = {} /\ legacy = Deleted

\* A signed-in member is never shut out of the account, whether requests race
\* to create the workspace or an erasure was refused: a workspace without its
\* membership, which no request can repair, is only seen between two
\* statements, or after one of them failed.
MemberCanReturn ==
    "session" \in identity /\ workspace # NoWorkspace /\ member # workspace /\ failures = 0 =>
        \E a \in Actors : act[a].of = workspace /\ act[a].at \in {"join", "workspace"}

-----------------------------------------------------------------------------
(* What the documents say and the code does not keep.                      *)

\* account_erasure.py:35, "so no message outlives the account": an upload under
\* way, or one that died before its row was updated, leaves its copy behind.
NoMessageOutlivesAccount ==
    \A e \in Erasures : act[e].at = "done" => act[e].of \notin copies

\* rgpd-register.md:43, the reported emails are among what an erasure deletes,
\* and :52, "What outlives the account": the exercise log and the metrics.  The
\* row of a reported email is deleted, its object in the bucket is not, even if
\* nothing is under way beside the erasure.
NoEvidenceOutlivesAccount ==
    \A e \in Erasures : ~crossed /\ act[e].at = "done" => act[e].of \notin evidence

\* test_account_erasure.py:127, "nothing is half deleted", of a refusal by
\* Cloudflare: the domains torn down before the refused one are gone.
NothingHalfDeleted ==
    \A e \in Erasures :
        /\ act[e].at = "refused" /\ act[e].todo # {}
        /\ \A f \in Erasures \ {e} : act[f].at = "idle"
        => \A z \in Domains : domain[z] # "gone"
=============================================================================
