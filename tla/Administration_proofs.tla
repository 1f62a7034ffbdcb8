----------------------- MODULE Administration_proofs -----------------------
(***************************************************************************)
(* The two parts of the administration, for every number of requests: an   *)
(* account whose members, mails and erasures cross, and the operational    *)
(* exercises across restarts.                                              *)
(***************************************************************************)
EXTENDS OperationalExercises, Accounts, TLAPS

USE AccountsAssumption
    DEF Workspaces, NoWorkspace, Deleted, Home, Actors, Members, Erasures

-----------------------------------------------------------------------------
(* Accounts: the inductive invariant.                                      *)

Guests ==
    {"join", "adopt", "evidence", "work", "hold", "journal", "held", "check", "write", "record"}
AccountSteps ==
    Ended \cup Deleting \cup Guests \cup {"look", "create", "find", "select", "teardown"}
Requests == [at : AccountSteps, of : 0..MaxWorkspaces, todo : SUBSET Domains]

AccountTypeOK ==
    /\ identity \subseteq {"session", "account", "user"}
    /\ made \in 0..MaxWorkspaces /\ workspace \in 0..made /\ member \in 0..made
    /\ legacy \in 0..Deleted
    /\ domain \in [Domains -> {"provisioning", "active", "error", "gone"}]
    /\ items \in [Workspaces -> {"none", "held", "stored"}]
    /\ copies \subseteq Workspaces /\ rows \subseteq Workspaces /\ evidence \subseteq Workspaces
    /\ act \in [Actors -> Requests]
    /\ failures \in Nat /\ crossed \in BOOLEAN

\* Who takes which step.
Roles ==
    \A a \in Actors :
        /\ act[a].at \in {"look", "create", "join", "adopt"} => a \in Members
        /\ act[a].at = "work" => a \in Visits \cup Reports
        /\ act[a].at = "evidence" => a \in Reports
        /\ act[a].at \in {"idle", "find"} => act[a].of = NoWorkspace
        /\ act[a].at \in Guests => act[a].of \in Workspaces
        /\ act[a].at \in Guests \ {"join", "adopt", "evidence", "work"} =>
              a \in Mails /\ act[a].of = Home
        /\ act[a].at \in Deleting \cup {"find", "select", "teardown"} => a \in Erasures

MemberOfWorkspace == member # NoWorkspace => member = workspace
DomainsOfHome == workspace # Home => \A z \in Domains : domain[z] = "gone"
JoinIsFresh ==
    \A a \in Actors : act[a].at = "join" =>
        /\ act[a].of \in 1..made
        /\ workspace = act[a].of => member = NoWorkspace
        /\ \A b \in Actors : act[b].at = "join" /\ act[b].of = act[a].of => a = b
Disconnected ==
    \A e \in Erasures :
        /\ act[e].at = "teardown" => Connected(act[e].of) \subseteq act[e].todo
        /\ act[e].at \in Deleting => Connected(act[e].of) = {}
IdentityErased == \A e \in Erasures : act[e].at = "done" => identity = {}
Repairable ==
    workspace # NoWorkspace /\ member # workspace /\ failures = 0 =>
        \E a \in Actors : act[a].of = workspace /\ act[a].at \in {"join", "workspace"}

Steady ==
    /\ AccountTypeOK /\ Roles /\ MemberOfWorkspace /\ DomainsOfHome /\ JoinIsFresh
    /\ Disconnected /\ IdentityErased /\ Repairable

-----------------------------------------------------------------------------
(* One step of one request.                                                *)

Went(a, step, w, T) ==
    /\ act' \in [Actors -> Requests]
    /\ act'[a].at = step /\ act'[a].of = w /\ act'[a].todo = T
    /\ \A b \in Actors : b # a => act'[b] = act[b]

LEMMA MovesWent ==
    ASSUME act \in [Actors -> Requests], NEW a \in Actors, NEW step \in AccountSteps,
           Moves(a, step)
    PROVE  Went(a, step, act[a].of, act[a].todo)
BY DEF Moves, Went, Requests

LEMMA MovesInWent ==
    ASSUME act \in [Actors -> Requests], NEW a \in Actors, NEW step \in AccountSteps,
           NEW w \in 0..MaxWorkspaces, MovesIn(a, step, w)
    PROVE  Went(a, step, w, act[a].todo)
BY DEF MovesIn, Went, Requests

LEMMA WentSteady ==
    ASSUME Steady, NEW a \in Actors, NEW step, NEW w, NEW T, Went(a, step, w, T),
           AccountTypeOK', UNCHANGED <<tenancy, domain, failures>>, identity' \subseteq identity,
           act[a].at \notin {"join", "workspace"}, step # "join",
           step \in {"look", "create", "adopt"} => a \in Members,
           step = "work" => a \in Visits \cup Reports, step = "evidence" => a \in Reports,
           step \in {"idle", "find"} => w = NoWorkspace,
           step \in Guests => w \in Workspaces,
           step \in Guests \ {"join", "adopt", "evidence", "work"} => a \in Mails /\ w = Home,
           step \in Deleting \cup {"find", "select", "teardown"} => a \in Erasures,
           step = "teardown" => Connected(w) \subseteq T,
           step \in Deleting => Connected(w) = {},
           step = "done" /\ a \in Erasures => identity' = {}
    PROVE  Steady'
<1>. USE DEF Went, tenancy
<1>1. Roles' BY DEF Steady, Roles
<1>2. MemberOfWorkspace' /\ DomainsOfHome'
  BY DEF Steady, MemberOfWorkspace, DomainsOfHome
<1>3. JoinIsFresh' BY DEF Steady, JoinIsFresh
<1>4. Disconnected' BY DEF Steady, Disconnected, Connected
<1>5. IdentityErased' BY DEF Steady, IdentityErased
<1>6. Repairable' BY DEF Steady, Repairable
<1>. QED BY <1>1, <1>2, <1>3, <1>4, <1>5, <1>6 DEF Steady

\* The requests of the member.
LEMMA RequestSteady ==
    ASSUME Steady, NEW a \in Actors, Request(a), UNCHANGED failures, crossed' \in BOOLEAN
    PROVE  Steady'
<1>. USE DEF AccountSteps, Guests, Deleting, Ended, tenancy, stores
<1>0. act \in [Actors -> Requests] /\ AccountTypeOK BY DEF Steady, AccountTypeOK
<1>1. CASE Authenticate(a)
  <2>1. PICK step \in {"look", "refused"} : Moves(a, step) BY <1>1 DEF Authenticate
  <2>2. Went(a, step, act[a].of, act[a].todo) BY <1>0, <2>1, MovesWent
  <2>3. AccountTypeOK' BY <1>0, <1>1, <2>2 DEF Authenticate, Went, AccountTypeOK
  <2>. QED BY <1>1, <2>2, <2>3, WentSteady DEF Authenticate
<1>2. CASE LookMember(a)
  <2>1. PICK step \in {"select", "work", "create"}, w \in 0..MaxWorkspaces :
          /\ Went(a, step, w, act[a].todo)
          /\ step = "select" => a \in SelfErasures
          /\ step = "work" => a \notin SelfErasures /\ w \in Workspaces
    <3>1. /\ member \in 0..MaxWorkspaces /\ act[a].of \in 0..MaxWorkspaces
          /\ member # NoWorkspace => member \in Workspaces
      BY <1>0 DEF AccountTypeOK, Requests
    <3>2. Purpose(a) \in {"select", "work"} /\ (Purpose(a) = "select" <=> a \in SelfErasures)
      BY DEF Purpose
    <3>3. CASE Moves(a, "create")
      <4>1. Went(a, "create", act[a].of, act[a].todo) BY <1>0, <3>3, MovesWent
      <4>. QED BY <3>1, <4>1
    <3>4. CASE member # NoWorkspace /\ MovesIn(a, Purpose(a), member)
      <4>1. Went(a, Purpose(a), member, act[a].todo) BY <1>0, <3>1, <3>2, <3>4, MovesInWent
      <4>. QED BY <3>1, <3>2, <3>4, <4>1
    <3>. QED BY <1>2, <3>3, <3>4 DEF LookMember
  <2>2. a \in Members BY <1>2 DEF Steady, Roles, LookMember
  <2>3. AccountTypeOK' BY <1>0, <1>2, <2>1 DEF LookMember, Went, AccountTypeOK
  <2>. QED BY <1>2, <2>1, <2>2, <2>3, WentSteady DEF LookMember
<1>3. CASE CreateWorkspace(a)
  <2>1. a \in Members BY <1>3 DEF Steady, Roles, CreateWorkspace
  <2>2. CASE workspace # NoWorkspace
    <3>1. Went(a, "refused", act[a].of, act[a].todo) BY <1>0, <1>3, <2>2, MovesWent DEF CreateWorkspace
    <3>2. AccountTypeOK' BY <1>0, <1>3, <2>2, <3>1 DEF CreateWorkspace, Went, AccountTypeOK
    <3>. QED BY <1>3, <2>2, <3>1, <3>2, WentSteady DEF CreateWorkspace
  <2>3. CASE workspace = NoWorkspace
    <3>1. /\ made' = made + 1 /\ made' \in 0..MaxWorkspaces /\ workspace' = made' /\ made' \in Workspaces
          /\ UNCHANGED <<identity, member, legacy, domain, stores, failures>>
      BY <1>0, <1>3, <2>3 DEF CreateWorkspace, AccountTypeOK
    <3>2. Went(a, "join", made', act[a].todo)
      BY <1>0, <1>3, <2>3, <3>1, MovesInWent DEF CreateWorkspace
    <3>3. AccountTypeOK' BY <1>0, <3>1, <3>2 DEF Went, AccountTypeOK
    <3>4. member = NoWorkspace BY <2>3 DEF Steady, MemberOfWorkspace
    <3>5. Roles' BY <2>1, <3>1, <3>2 DEF Steady, Roles, Went
    <3>6. MemberOfWorkspace' /\ DomainsOfHome'
      BY <2>3, <3>1, <3>4 DEF Steady, MemberOfWorkspace, DomainsOfHome
    <3>7. JoinIsFresh'
      <4>1. \A b \in Actors : act[b].at = "join" => act[b].of \in 1..made /\ act[b].of # made'
        BY <3>1, <1>0 DEF Steady, JoinIsFresh, AccountTypeOK
      <4>. QED BY <1>0, <3>1, <3>2, <3>4, <4>1 DEF Steady, JoinIsFresh, Went, AccountTypeOK
    <3>8. Disconnected' /\ IdentityErased'
      BY <2>1, <3>1, <3>2 DEF Steady, Disconnected, IdentityErased, Connected, Went
    <3>9. Repairable' BY <3>1, <3>2 DEF Repairable, Went
    <3>. QED BY <3>3, <3>5, <3>6, <3>7, <3>8, <3>9 DEF Steady
  <2>. QED BY <2>2, <2>3
<1>4. CASE Join(a)
  <2>1. a \in Members /\ act[a].of \in 1..made /\ act[a].at = "join"
    BY <1>4 DEF Steady, Roles, Join, JoinIsFresh
  <2>2. PICK step \in {"adopt", "refused"} : Went(a, step, act[a].of, act[a].todo)
    BY <1>0, <1>4, MovesWent DEF Join
  <2>3. /\ UNCHANGED <<identity, workspace, made, legacy, domain, stores, failures>>
        /\ \/ member' = member /\ ~(member = NoWorkspace /\ workspace = act[a].of)
           \/ member' = workspace /\ member = NoWorkspace /\ workspace = act[a].of
    BY <1>4 DEF Join
  <2>4. AccountTypeOK' BY <1>0, <2>2, <2>3 DEF Went, AccountTypeOK
  <2>5. Roles' BY <2>1, <2>2 DEF Steady, Roles, Went
  <2>6. MemberOfWorkspace' /\ DomainsOfHome'
    BY <2>3 DEF Steady, MemberOfWorkspace, DomainsOfHome
  <2>7. JoinIsFresh' BY <2>1, <2>2, <2>3 DEF Steady, JoinIsFresh, Went
  <2>8. Disconnected' /\ IdentityErased'
    BY <2>2, <2>3 DEF Steady, Disconnected, IdentityErased, Connected, Went
  <2>9. Repairable' BY <2>1, <2>2, <2>3 DEF Steady, Repairable, MemberOfWorkspace, Went
  <2>. QED BY <2>4, <2>5, <2>6, <2>7, <2>8, <2>9 DEF Steady
<1>5. CASE Adopt(a)
  <2>1. a \in Members /\ act[a].of \in Workspaces BY <1>5 DEF Steady, Roles, Adopt
  <2>2. Purpose(a) \in {"select", "work"} /\ (Purpose(a) = "select" <=> a \in SelfErasures)
    BY DEF Purpose
  <2>3. Went(a, Purpose(a), act[a].of, act[a].todo) BY <1>0, <1>5, <2>2, MovesWent DEF Adopt
  <2>4. AccountTypeOK' BY <1>0, <1>5, <2>3 DEF Adopt, Went, AccountTypeOK, Requests
  <2>. QED BY <1>5, <2>1, <2>2, <2>3, <2>4, WentSteady DEF Adopt
<1>6. CASE Work(a)
  <2>1. a \in Visits \cup Reports BY <1>6 DEF Steady, Roles, Work
  <2>2. Went(a, "done", act[a].of, act[a].todo) BY <1>0, <1>6, MovesWent DEF Work
  <2>3. act[a].of \in Workspaces BY <1>6 DEF Steady, Roles, Work
  <2>4. AccountTypeOK'
    <3>1. rows' \subseteq Workspaces BY <1>0, <1>6, <2>3 DEF Work, AccountTypeOK
    <3>. QED BY <1>0, <1>6, <2>2, <3>1 DEF Work, Went, AccountTypeOK
  <2>. QED BY <1>6, <2>1, <2>2, <2>4, WentSteady DEF Work
<1>7. CASE ReportLook(a)
  <2>1. PICK step \in {"evidence", "refused"}, w \in 0..MaxWorkspaces :
          /\ Went(a, step, w, act[a].todo)
          /\ step = "evidence" => w \in Workspaces
    <3>1. PICK w \in 1..made :
            MovesIn(a, "evidence", w) \/ Moves(a, "refused")
      BY <1>7 DEF ReportLook
    <3>2. w \in Workspaces /\ w \in 0..MaxWorkspaces /\ act[a].of \in 0..MaxWorkspaces
      BY <1>0 DEF AccountTypeOK, Requests
    <3>. QED BY <1>0, <3>1, <3>2, MovesWent, MovesInWent
  <2>2. AccountTypeOK' BY <1>0, <1>7, <2>1 DEF ReportLook, Went, AccountTypeOK
  <2>. QED BY <1>7, <2>1, <2>2, WentSteady DEF ReportLook
<1>8. CASE ReportWrite(a)
  <2>1. a \in Reports /\ act[a].of \in Workspaces BY <1>8 DEF Steady, Roles, ReportWrite
  <2>2. Went(a, "work", act[a].of, act[a].todo) BY <1>0, <1>8, MovesWent DEF ReportWrite
  <2>3. evidence' \subseteq Workspaces BY <1>0, <1>8, <2>1 DEF ReportWrite, AccountTypeOK
  <2>4. AccountTypeOK' BY <1>0, <1>8, <2>2, <2>3 DEF ReportWrite, Went, AccountTypeOK
  <2>. QED BY <1>8, <2>1, <2>2, <2>4, WentSteady DEF ReportWrite
<1>. QED BY <1>1, <1>2, <1>3, <1>4, <1>5, <1>6, <1>7, <1>8 DEF Request

\* The mail of a connected domain.
LEMMA MailSteady ==
    ASSUME Steady, NEW a \in Actors, Mail(a), UNCHANGED failures, crossed' \in BOOLEAN
    PROVE  Steady'
<1>. USE DEF AccountSteps, Guests, Deleting, Ended, tenancy, stores
<1>0. act \in [Actors -> Requests] /\ AccountTypeOK BY DEF Steady, AccountTypeOK
<1>1. CASE MailAuthenticate(a)
  <2>1. PICK step \in {"hold", "check", "refused"}, w \in 0..MaxWorkspaces :
          /\ Went(a, step, w, act[a].todo)
          /\ step # "refused" => w = Home
    <3>1. PICK step \in {"hold", "check", "refused"} :
            \/ MovesIn(a, step, Home)
            \/ step = "refused" /\ Moves(a, step)
      BY <1>1 DEF MailAuthenticate
    <3>2. act[a].of \in 0..MaxWorkspaces BY <1>0 DEF Requests
    <3>. QED BY <1>0, <3>1, <3>2, MovesWent, MovesInWent
  <2>2. AccountTypeOK' BY <1>0, <1>1, <2>1 DEF MailAuthenticate, Went, AccountTypeOK
  <2>. QED BY <1>1, <2>1, <2>2, WentSteady DEF MailAuthenticate
<1>2. CASE MailCheck(a)
  <2>1. a \in Mails /\ act[a].of = Home BY <1>2 DEF Steady, Roles, MailCheck
  <2>2. PICK step \in {"refused", "write", "done"} : Moves(a, step) BY <1>2 DEF MailCheck
  <2>3. Went(a, step, act[a].of, act[a].todo) BY <1>0, <2>2, MovesWent
  <2>4. AccountTypeOK' BY <1>0, <1>2, <2>3 DEF MailCheck, Went, AccountTypeOK
  <2>. QED BY <1>2, <2>1, <2>3, <2>4, WentSteady DEF MailCheck
<1>3. CASE MailHold(a) \/ MailJournal(a) \/ MailWrite(a) \/ MailRecord(a)
  <2>. USE DEF MailHold, MailJournal, MailWrite, MailRecord
  <2>1. a \in Mails /\ act[a].of = Home /\ act[a].of \in Workspaces BY <1>3 DEF Steady, Roles
  <2>2. PICK step \in {"journal", "held", "record", "done"} : Moves(a, step) BY <1>3
  <2>3. Went(a, step, act[a].of, act[a].todo) BY <1>0, <2>2, MovesWent
  <2>4. /\ items' \in [Workspaces -> {"none", "held", "stored"}]
        /\ copies' \subseteq Workspaces /\ rows' \subseteq Workspaces
    <3>1. items' \in [Workspaces -> {"none", "held", "stored"}] BY <1>0, <1>3 DEF AccountTypeOK
    <3>2. copies' \subseteq Workspaces /\ rows' \subseteq Workspaces
      BY <1>0, <1>3, <2>1 DEF AccountTypeOK
    <3>. QED BY <3>1, <3>2
  <2>5. UNCHANGED <<identity, tenancy, legacy, domain, evidence>> BY <1>3
  <2>6. AccountTypeOK' BY <1>0, <2>3, <2>4, <2>5 DEF Went, AccountTypeOK
  <2>. QED BY <1>3, <2>1, <2>3, <2>5, <2>6, WentSteady
<1>. QED BY <1>1, <1>2, <1>3 DEF Mail

\* The statements of an erasure, and what it removes outside.
LEMMA EraseSteady ==
    ASSUME Steady, NEW e \in Actors, Erase(e), UNCHANGED failures, crossed' \in BOOLEAN
    PROVE  Steady'
<1>. USE DEF AccountSteps, Guests, Deleting, Ended, tenancy, stores
<1>0. act \in [Actors -> Requests] /\ AccountTypeOK BY DEF Steady, AccountTypeOK
<1>1. CASE AdminFind(e)
  <2>0. e \in Erasures /\ act[e].of = NoWorkspace BY <1>1 DEF Steady, Roles, AdminFind
  <2>1. PICK step \in {"find", "refused"} : Moves(e, step) BY <1>1 DEF AdminFind
  <2>2. Went(e, step, act[e].of, act[e].todo) BY <1>0, <2>1, MovesWent
  <2>3. AccountTypeOK' BY <1>0, <1>1, <2>2 DEF AdminFind, Went, AccountTypeOK
  <2>. QED BY <1>1, <2>0, <2>2, <2>3, WentSteady DEF AdminFind
<1>2. CASE AdminLook(e)
  <2>1. e \in Erasures BY <1>2 DEF Steady, Roles, AdminLook
  <2>2. CASE MovesIn(e, "select", member)
    <3>1. Went(e, "select", member, act[e].todo) BY <1>0, <2>2, MovesInWent DEF AccountTypeOK
    <3>2. AccountTypeOK' BY <1>0, <1>2, <3>1 DEF AdminLook, Went, AccountTypeOK
    <3>. QED BY <1>2, <2>1, <3>1, <3>2, WentSteady DEF AdminLook
  <2>3. CASE Moves(e, "session")
    <3>1. Went(e, "session", act[e].of, act[e].todo) BY <1>0, <2>3, MovesWent
    <3>2. AccountTypeOK' BY <1>0, <1>2, <3>1 DEF AdminLook, Went, AccountTypeOK
    <3>3. Connected(act[e].of) = {} BY <1>2 DEF Steady, Roles, AdminLook, Connected
    <3>. QED BY <1>2, <2>1, <3>1, <3>2, <3>3, WentSteady DEF AdminLook
  <2>. QED BY <1>2, <2>2, <2>3 DEF AdminLook
<1>3. CASE EraseSelect(e)
  <2>1. e \in Erasures BY <1>3 DEF Steady, Roles, EraseSelect
  <2>2. CASE Moves(e, "refused")
    <3>1. Went(e, "refused", act[e].of, act[e].todo) BY <1>0, <2>2, MovesWent
    <3>2. AccountTypeOK' BY <1>0, <1>3, <3>1 DEF EraseSelect, Went, AccountTypeOK
    <3>. QED BY <1>3, <3>1, <3>2, WentSteady DEF EraseSelect
  <2>3. CASE act' = [act EXCEPT ![e].at = "teardown", ![e].todo = Connected(act[e].of)]
    <3>1. Went(e, "teardown", act[e].of, Connected(act[e].of))
      BY <1>0, <2>3 DEF Went, Requests, Connected
    <3>2. AccountTypeOK' BY <1>0, <1>3, <3>1 DEF EraseSelect, Went, AccountTypeOK
    <3>. QED BY <1>3, <2>1, <3>1, <3>2, WentSteady DEF EraseSelect
  <2>. QED BY <1>3, <2>2, <2>3 DEF EraseSelect
<1>4. CASE EraseTeardown(e)
  <2>1. e \in Erasures BY <1>4 DEF Steady, Roles, EraseTeardown
  <2>2. CASE Moves(e, "refused") /\ UNCHANGED domain
    <3>1. Went(e, "refused", act[e].of, act[e].todo) BY <1>0, <2>2, MovesWent
    <3>2. AccountTypeOK' BY <1>0, <1>4, <2>2, <3>1 DEF EraseTeardown, Went, AccountTypeOK
    <3>. QED BY <1>4, <2>2, <3>1, <3>2, WentSteady DEF EraseTeardown
  <2>3. ASSUME NEW z \in act[e].todo, domain' = [domain EXCEPT ![z] = "gone"],
               act' = [act EXCEPT ![e].todo = @ \ {z}]
        PROVE  Steady'
    <3>1. Went(e, "teardown", act[e].of, act[e].todo \ {z})
      BY <1>0, <1>4, <2>3 DEF EraseTeardown, Went, Requests
    <3>2. \A y \in Domains : domain'[y] # "gone" => domain[y] # "gone" /\ y # z
      BY <1>0, <2>3 DEF AccountTypeOK
    <3>3. AccountTypeOK' BY <1>0, <1>4, <2>3, <3>1 DEF EraseTeardown, Went, AccountTypeOK
    <3>4. UNCHANGED <<identity, tenancy>> BY <1>4 DEF EraseTeardown
    <3>5. Roles' /\ MemberOfWorkspace' /\ DomainsOfHome'
      BY <2>1, <3>1, <3>2, <3>4 DEF Steady, Roles, MemberOfWorkspace, DomainsOfHome, Went
    <3>6. JoinIsFresh' /\ IdentityErased' /\ Repairable'
      BY <1>4, <3>1, <3>4 DEF Steady, JoinIsFresh, IdentityErased, Repairable, Went, EraseTeardown
    <3>7. Disconnected'
      BY <1>4, <3>1, <3>2 DEF Steady, Disconnected, Connected, Went, EraseTeardown
    <3>. QED BY <3>3, <3>5, <3>6, <3>7 DEF Steady
  <2>. QED BY <1>4, <2>2, <2>3 DEF EraseTeardown
<1>5. CASE EraseList(e)
  <2>1. e \in Erasures /\ Connected(act[e].of) = {}
    BY <1>5 DEF Steady, Roles, Disconnected, EraseList
  <2>2. PICK step \in {"drop", "items"} : Moves(e, step) BY <1>5 DEF EraseList
  <2>3. Went(e, step, act[e].of, act[e].todo) BY <1>0, <2>2, MovesWent
  <2>4. AccountTypeOK' BY <1>0, <1>5, <2>3 DEF EraseList, Went, AccountTypeOK
  <2>. QED BY <1>5, <2>1, <2>3, <2>4, WentSteady DEF EraseList
<1>6. CASE EraseDrop(e) \/ EraseItems(e) \/ EraseRest(e) \/ EraseIdentity(e)
  <2>. USE DEF EraseDrop, EraseItems, EraseRest, EraseIdentity
  <2>1. e \in Erasures /\ Connected(act[e].of) = {} BY <1>6 DEF Steady, Roles, Disconnected
  <2>2. PICK step \in {"items", "refused", "rows", "domains", "account", "user", "done"} :
          /\ Moves(e, step)
          /\ step = "done" => identity' = {}
    BY <1>6
  <2>3. Went(e, step, act[e].of, act[e].todo) BY <1>0, <2>2, MovesWent
  <2>4. /\ identity' \subseteq identity /\ copies' \subseteq Workspaces /\ rows' \subseteq Workspaces
        /\ legacy' \in 0..Deleted
    <3>1. identity' \subseteq identity BY <1>6
    <3>2. copies' \subseteq Workspaces /\ rows' \subseteq Workspaces
      BY <1>0, <1>6 DEF AccountTypeOK
    <3>3. legacy' \in 0..Deleted BY <1>0, <1>6 DEF AccountTypeOK
    <3>. QED BY <3>1, <3>2, <3>3
  <2>5. items' \in [Workspaces -> {"none", "held", "stored"}] BY <1>0, <1>6 DEF AccountTypeOK
  <2>6. UNCHANGED <<tenancy, domain, evidence>> BY <1>6
  <2>7. AccountTypeOK' BY <1>0, <2>3, <2>4, <2>5, <2>6 DEF Went, AccountTypeOK
  <2>. QED BY <1>6, <2>1, <2>2, <2>3, <2>4, <2>6, <2>7, WentSteady
<1>7. CASE EraseDomains(e)
  <2>1. e \in Erasures BY <1>7 DEF Steady, Roles, EraseDomains
  <2>2. Went(e, "member", act[e].of, act[e].todo) BY <1>0, <1>7, MovesWent DEF EraseDomains
  <2>3. domain' = domain
    BY <1>0, <1>7, <2>1 DEF Steady, Disconnected, EraseDomains, AccountTypeOK
  <2>4. AccountTypeOK' BY <1>0, <1>7, <2>2, <2>3 DEF EraseDomains, Went, AccountTypeOK
  <2>5. Connected(act[e].of) = {} BY <1>7, <2>1 DEF Steady, Disconnected, EraseDomains
  <2>. QED BY <1>7, <2>1, <2>2, <2>3, <2>4, <2>5, WentSteady DEF EraseDomains
<1>8. CASE EraseMember(e)
  <2>1. e \in Erasures BY <1>8 DEF Steady, Roles, EraseMember
  <2>2. Went(e, "workspace", act[e].of, act[e].todo) BY <1>0, <1>8, MovesWent DEF EraseMember
  <2>3. /\ UNCHANGED <<identity, workspace, made, legacy, domain, stores>>
        /\ member' = IF member = act[e].of THEN NoWorkspace ELSE member
    BY <1>8 DEF EraseMember
  <2>4. AccountTypeOK' BY <1>0, <2>2, <2>3 DEF Went, AccountTypeOK
  <2>5. Roles' /\ MemberOfWorkspace' /\ DomainsOfHome'
    BY <2>1, <2>2, <2>3 DEF Steady, Roles, MemberOfWorkspace, DomainsOfHome, Went
  <2>6. JoinIsFresh' BY <2>2, <2>3 DEF Steady, JoinIsFresh, Went
  <2>7. Disconnected' /\ IdentityErased'
    BY <1>8, <2>1, <2>2, <2>3 DEF Steady, Disconnected, IdentityErased, Connected, Went, EraseMember
  <2>8. Repairable'
    BY <1>8, <2>2, <2>3 DEF Steady, Repairable, MemberOfWorkspace, Went, EraseMember
  <2>. QED BY <2>4, <2>5, <2>6, <2>7, <2>8 DEF Steady
<1>9. CASE EraseWorkspace(e)
  <2>1. e \in Erasures /\ Connected(act[e].of) = {}
    BY <1>9 DEF Steady, Roles, Disconnected, EraseWorkspace
  <2>2. Went(e, "session", act[e].of, act[e].todo) BY <1>0, <1>9, MovesWent DEF EraseWorkspace
  <2>3. /\ UNCHANGED <<identity, made, legacy, domain, stores>>
        /\ workspace' = IF workspace = act[e].of THEN NoWorkspace ELSE workspace
        /\ member' = IF member = act[e].of THEN NoWorkspace ELSE member
    BY <1>9 DEF EraseWorkspace
  <2>4. AccountTypeOK' BY <1>0, <2>2, <2>3 DEF Went, AccountTypeOK
  <2>5. Roles' /\ MemberOfWorkspace'
    BY <2>1, <2>2, <2>3 DEF Steady, Roles, MemberOfWorkspace, Went
  <2>6. DomainsOfHome' BY <2>1, <2>3 DEF Steady, DomainsOfHome, Connected
  <2>7. JoinIsFresh' BY <2>2, <2>3 DEF Steady, JoinIsFresh, Went
  <2>8. Disconnected' /\ IdentityErased'
    BY <1>9, <2>1, <2>2, <2>3 DEF Steady, Disconnected, IdentityErased, Connected, Went, EraseWorkspace
  <2>9. Repairable'
    BY <1>9, <2>2, <2>3 DEF Steady, Repairable, MemberOfWorkspace, Went, EraseWorkspace
  <2>. QED BY <2>4, <2>5, <2>6, <2>7, <2>8, <2>9 DEF Steady
<1>. QED BY <1>1, <1>2, <1>3, <1>4, <1>5, <1>6, <1>7, <1>8, <1>9 DEF Erase

-----------------------------------------------------------------------------
LEMMA AccountInitSteady == AccountInit => Steady
<1>. SUFFICES ASSUME AccountInit PROVE Steady OBVIOUS
<1>. USE DEF AccountInit, Idle
<1>1. act \in [Actors -> Requests] BY DEF Requests, AccountSteps, Ended
<1>2. AccountTypeOK
  <2>1. items \in [Workspaces -> {"none", "held", "stored"}] OBVIOUS
  <2>2. copies \subseteq Workspaces /\ rows \subseteq Workspaces /\ evidence \subseteq Workspaces
    OBVIOUS
  <2>3. domain \in [Domains -> {"provisioning", "active", "error", "gone"}] OBVIOUS
  <2>4. made \in 0..MaxWorkspaces /\ workspace \in 0..made /\ member \in 0..made /\ legacy \in 0..Deleted
    OBVIOUS
  <2>. QED BY <1>1, <2>1, <2>2, <2>3, <2>4 DEF AccountTypeOK
<1>3. \A a \in Actors : act[a].at = "idle" /\ act[a].of = NoWorkspace OBVIOUS
<1>4. MemberOfWorkspace /\ DomainsOfHome /\ Repairable
  BY DEF MemberOfWorkspace, DomainsOfHome, Repairable
<1>5. Roles /\ JoinIsFresh /\ Disconnected /\ IdentityErased
  BY <1>3 DEF Roles, JoinIsFresh, Disconnected, IdentityErased, Guests, Deleting
<1>. QED BY <1>2, <1>4, <1>5 DEF Steady

LEMMA AccountNextSteady ==
    ASSUME Steady, [AccountNext]_accountVars
    PROVE  Steady'
<1>. USE DEF AccountSteps, Guests, Deleting, Ended, tenancy, stores
<1>0. act \in [Actors -> Requests] /\ AccountTypeOK BY DEF Steady, AccountTypeOK
<1>1. AccountNext => crossed' \in BOOLEAN BY <1>0 DEF AccountNext, AccountTypeOK
<1>2. CASE SignIn /\ crossed' \in BOOLEAN
  <2>1. UNCHANGED <<tenancy, legacy, domain, stores, act, failures>> /\ identity # {}
        /\ identity' \subseteq {"session", "account", "user"}
    BY <1>0, <1>2 DEF SignIn, AccountTypeOK
  <2>2. AccountTypeOK' BY <1>0, <1>2, <2>1 DEF AccountTypeOK
  <2>3. Roles' /\ JoinIsFresh' BY <2>1 DEF Steady, Roles, JoinIsFresh
  <2>4. IdentityErased' BY <2>1 DEF Steady, IdentityErased
  <2>. QED
    BY <2>1, <2>2, <2>3, <2>4 DEF Steady, MemberOfWorkspace, DomainsOfHome, Disconnected, Repairable,
       Connected
<1>3. ASSUME NEW z \in Domains, Provisioned(z), crossed' \in BOOLEAN PROVE Steady'
  <2>1. UNCHANGED <<identity, tenancy, legacy, stores, act, failures>> BY <1>3 DEF Provisioned
  <2>2. domain' \in [Domains -> {"provisioning", "active", "error", "gone"}]
    BY <1>0, <1>3 DEF Provisioned, AccountTypeOK
  <2>3. \A y \in Domains : domain'[y] # "gone" => domain[y] # "gone"
    BY <1>0, <1>3 DEF Provisioned, AccountTypeOK
  <2>4. AccountTypeOK' BY <1>0, <1>3, <2>1, <2>2 DEF AccountTypeOK
  <2>5. DomainsOfHome' BY <2>1, <2>2, <2>3 DEF Steady, DomainsOfHome
  <2>6. Disconnected' BY <2>1, <2>3 DEF Steady, Disconnected, Connected
  <2>. QED
    BY <2>1, <2>4, <2>5, <2>6 DEF Steady, Roles, MemberOfWorkspace, JoinIsFresh, IdentityErased, Repairable
<1>4. ASSUME NEW a \in Actors, Fails(a), crossed' \in BOOLEAN PROVE Steady'
  <2>1. Went(a, "failed", act[a].of, act[a].todo) BY <1>0, <1>4, MovesWent DEF Fails
  <2>2. /\ UNCHANGED <<identity, tenancy, legacy, domain, stores>>
        /\ failures' \in Nat /\ failures' # 0
    BY <1>0, <1>4 DEF Fails, AccountTypeOK
  <2>3. AccountTypeOK' BY <1>0, <1>4, <2>1, <2>2 DEF AccountTypeOK, Went
  <2>4. Roles' /\ MemberOfWorkspace' /\ DomainsOfHome' /\ Repairable'
    BY <2>1, <2>2 DEF Steady, Roles, MemberOfWorkspace, DomainsOfHome, Repairable, Went
  <2>5. JoinIsFresh' BY <2>1, <2>2 DEF Steady, JoinIsFresh, Went
  <2>6. Disconnected' /\ IdentityErased'
    BY <2>1, <2>2 DEF Steady, Disconnected, IdentityErased, Connected, Went
  <2>. QED BY <2>3, <2>4, <2>5, <2>6 DEF Steady
<1>5. CASE UNCHANGED accountVars
  BY <1>5 DEF accountVars, Steady, AccountTypeOK, Roles, MemberOfWorkspace, DomainsOfHome,
     JoinIsFresh, Disconnected, IdentityErased, Repairable, Connected
<1>. QED
  BY <1>1, <1>2, <1>3, <1>4, <1>5, RequestSteady, MailSteady, EraseSteady DEF AccountNext

\* A signed-in member can always come back, whatever raced and whoever erased.
THEOREM ComesBack == AccountSpec => []MemberCanReturn
<1>1. Steady => MemberCanReturn BY DEF Steady, Repairable, MemberCanReturn
<1>. QED BY <1>1, AccountInitSteady, AccountNextSteady, PTL DEF AccountSpec

\* The variables of an account keep their types.
THEOREM AccountTypes == AccountSpec => []AccountTypeOK
<1>1. Steady => AccountTypeOK BY DEF Steady
<1>. QED BY <1>1, AccountInitSteady, AccountNextSteady, PTL DEF AccountSpec

-----------------------------------------------------------------------------
(* What an undisturbed erasure has behind it.                              *)

Erasing == Deleting \cup {"select", "teardown"}
FromItems ==
    {"items", "rows", "domains", "member", "workspace", "session", "account", "user", "done"}
FromRows == FromItems \ {"items"}
FromDomains == FromRows \ {"rows"}
FromSession == {"session", "account", "user", "done"}
Holding == {"journal", "held", "check", "write", "record"}

\* Crossing, said of a state.
Alone ==
    \A e \in Erasures, a \in Actors :
        /\ act[e].at \in Deleting /\ act[a].at \notin Ended =>
              act[a].of = act[e].of /\ act[a].at \in Erasing
        /\ act[e].at \in {"select", "teardown"} => act[a].at # "join"
GuestsAreHome ==
    \A a \in Actors : act[a].at \in Guests => act[a].of # NoWorkspace /\ act[a].of = workspace
OwnedByWorkspace ==
    /\ \A w \in rows : w = workspace
    /\ \A w \in Workspaces : items[w] # "none" => w = workspace
    /\ legacy \in {NoWorkspace, workspace, Deleted}
HeldHasRow == \A a \in Actors : act[a].at \in Holding => items[Home] # "none"
CopiesNamed ==
    failures = 0 => \A w \in copies :
        items[w] = "stored" \/ \E a \in Actors : act[a].at = "record" /\ act[a].of = w
LegacyAdopted ==
    failures = 0 /\ made # 0 /\ legacy = NoWorkspace =>
        \E a \in Actors : act[a].at \in {"join", "adopt"}
Progress(e) ==
    /\ made # 0
    /\ act[e].at \in Erasing => workspace \in {act[e].of, NoWorkspace}
    /\ act[e].at \in FromItems => (failures = 0 => act[e].of \notin copies)
    /\ act[e].at \in FromRows => items[act[e].of] = "none"
    /\ act[e].at \in FromDomains => act[e].of \notin rows /\ legacy # act[e].of
    /\ act[e].at \in FromSession => workspace = NoWorkspace
    /\ act[e].at = "done" =>
          \A a \in Actors : act[a].at \in Ended \/ (act[a].of = act[e].of /\ act[a].at \in Erasing)
AllProgress == \A e \in Erasures : act[e].of # NoWorkspace => Progress(e)

Undisturbed ==
    /\ Alone /\ GuestsAreHome /\ OwnedByWorkspace /\ HeldHasRow /\ CopiesNamed /\ LegacyAdopted
    /\ AllProgress

LEMMA NotCrossing ==
    ASSUME ~crossed', crossed' = (crossed \/ Crossing)
    PROVE  ~crossed /\ Alone'
BY DEF Crossing, Alone, Erasing

\* A request that does not erase moves only if no erasure has begun to delete.
LEMMA LateProgress ==
    ASSUME Alone, AllProgress, NEW a \in Actors, NEW step, NEW w, NEW T, Went(a, step, w, T),
           act[a].at \notin Ended \cup Erasing,
           UNCHANGED workspace \/ (step = "join" /\ Alone'), made # 0 => made' # 0,
           a \in Erasures /\ w # NoWorkspace => Progress(a)'
    PROVE  AllProgress'
<1>. SUFFICES ASSUME NEW e \in Erasures, e # a, act'[e].of # NoWorkspace PROVE Progress(e)'
  BY DEF AllProgress, Went
<1>1. act'[e] = act[e] /\ act'[a].at = step BY DEF Went
<1>2. act[e].at \notin Deleting /\ act[e].at # "done"
  BY <1>1 DEF Alone, AllProgress, Progress
<1>3. act[e].at \in Erasing => UNCHANGED workspace
  BY <1>1, <1>2 DEF Alone, Erasing
<1>. QED
  BY <1>1, <1>2, <1>3 DEF AllProgress, Progress, FromItems, FromRows, FromDomains, FromSession,
     Deleting

\* A request that erases, or only begins, adds nothing.
LEMMA EarlyProgress ==
    ASSUME AllProgress, NEW a \in Actors, NEW step, NEW w, NEW T, Went(a, step, w, T),
           workspace' \in {workspace, NoWorkspace}, UNCHANGED made,
           failures' = 0 => failures = 0,
           copies' \subseteq copies, rows' \subseteq rows,
           \A x \in Workspaces : items[x] = "none" => items'[x] = "none",
           legacy' \in {legacy, Deleted}, act \in [Actors -> Requests],
           act[a].at \in Erasing => w = act[a].of /\ step \in Ended \cup Erasing,
           act[a].at \in Ended \cup Erasing,
           act[a].at \in Ended /\ (\E e \in Erasures : act[e].at = "done" /\ act[e].of # NoWorkspace)
             => step \in Ended,
           a \in Erasures /\ w # NoWorkspace => Progress(a)'
    PROVE  AllProgress'
<1>. SUFFICES ASSUME NEW e \in Erasures, e # a, act'[e].of # NoWorkspace PROVE Progress(e)'
  BY DEF AllProgress, Went
<1>1. /\ act'[e] = act[e] /\ act'[a].at = step /\ act'[a].of = w /\ Progress(e)
      /\ act[e].of \in Workspaces
  BY DEF Went, AllProgress, Requests
<1>2. act[e].at = "done" =>
        \A b \in Actors : act'[b].at \in Ended \/ (act'[b].of = act'[e].of /\ act'[b].at \in Erasing)
  BY <1>1 DEF Progress, Went, Erasing, Ended, Deleting
<1>3. /\ act[e].at \in FromDomains => legacy' # act[e].of
      /\ act[e].at \in FromRows => items'[act[e].of] = "none"
      /\ act[e].at \in FromDomains => act[e].of \notin rows'
      /\ act[e].at \in FromItems => (failures' = 0 => act[e].of \notin copies')
  BY <1>1 DEF Progress
<1>. QED BY <1>1, <1>2, <1>3 DEF Progress

LEMMA WentOwned ==
    ASSUME Undisturbed, NEW a \in Actors, NEW step, NEW w, NEW T, Went(a, step, w, T),
           UNCHANGED <<workspace, made, legacy, items, copies, rows, failures>>,
           step \in Guests => w # NoWorkspace /\ w = workspace,
           step \in Holding => items[Home] # "none",
           act[a].at \notin {"join", "adopt", "record"}
    PROVE  GuestsAreHome' /\ OwnedByWorkspace' /\ HeldHasRow' /\ CopiesNamed' /\ LegacyAdopted'
<1>. USE DEF Undisturbed, Went
<1>1. GuestsAreHome' /\ OwnedByWorkspace' BY DEF GuestsAreHome, OwnedByWorkspace
<1>2. HeldHasRow' BY DEF HeldHasRow
<1>3. CopiesNamed' BY DEF CopiesNamed
<1>4. LegacyAdopted' BY DEF LegacyAdopted
<1>. QED BY <1>1, <1>2, <1>3, <1>4


LEMMA RequestUndisturbed ==
    ASSUME Steady, Undisturbed, Alone', NEW a \in Actors, Request(a), UNCHANGED failures
    PROVE  Undisturbed'
<1>. USE DEF AccountSteps, Ended, Deleting, Guests, Erasing, Holding, tenancy, stores
<1>0. /\ act \in [Actors -> Requests] /\ AccountTypeOK
      /\ Alone /\ GuestsAreHome /\ OwnedByWorkspace /\ HeldHasRow /\ CopiesNamed /\ LegacyAdopted
      /\ AllProgress
  BY DEF Steady, AccountTypeOK, Undisturbed
<1>1. CASE Authenticate(a)
  <2>1. PICK step \in {"look", "refused"} :
          Moves(a, step) /\ ("session" \notin identity => step = "refused")
    BY <1>1 DEF Authenticate
  <2>2. Went(a, step, act[a].of, act[a].todo) BY <1>0, <2>1, MovesWent
  <2>3. (\E e \in Erasures : act[e].at = "done") => step = "refused"
    BY <2>1 DEF Steady, IdentityErased
  <2>4. act[a].at = "idle" /\ act[a].of = NoWorkspace
    BY <1>1 DEF Authenticate, Steady, Roles
  <2>5. GuestsAreHome' /\ OwnedByWorkspace' /\ HeldHasRow' /\ CopiesNamed' /\ LegacyAdopted'
    BY <1>1, <2>2, <2>4, WentOwned DEF Authenticate
  <2>6. AllProgress' BY <1>0, <1>1, <2>2, <2>3, <2>4, EarlyProgress DEF Authenticate
  <2>. QED BY <2>5, <2>6 DEF Undisturbed
<1>2. CASE LookMember(a)
  <2>1. act[a].at = "look" /\ UNCHANGED <<workspace, made, legacy, stores>> /\ a \in Members
    BY <1>2 DEF LookMember, Steady, Roles
  <2>2. CASE Moves(a, "create")
    <3>1. Went(a, "create", act[a].of, act[a].todo) BY <1>0, <2>2, MovesWent
    <3>2. a \in Erasures /\ act[a].of # NoWorkspace => Progress(a)'
      BY <1>0, <2>1, <3>1
      DEF Went, AllProgress, Progress, FromItems, FromRows, FromDomains, FromSession
    <3>3. GuestsAreHome' /\ OwnedByWorkspace' /\ HeldHasRow' /\ CopiesNamed' /\ LegacyAdopted'
      BY <2>1, <3>1, WentOwned
    <3>4. AllProgress' BY <1>0, <2>1, <3>1, <3>2, LateProgress
    <3>. QED BY <3>3, <3>4 DEF Undisturbed
  <2>3. CASE MovesIn(a, Purpose(a), member) /\ member # NoWorkspace /\ member = workspace
    <3>0. Purpose(a) \in {"select", "work"} /\ (a \in Erasures => Purpose(a) = "select")
      BY <2>1 DEF Purpose
    <3>1. member \in 0..MaxWorkspaces /\ made # 0 BY <1>0, <2>3 DEF AccountTypeOK
    <3>2. Went(a, Purpose(a), member, act[a].todo) BY <1>0, <2>3, <3>0, <3>1, MovesInWent
    <3>3. a \in Erasures => Progress(a)'
      BY <2>1, <2>3, <3>0, <3>1, <3>2
      DEF Went, Progress, FromItems, FromRows, FromDomains, FromSession
    <3>4. GuestsAreHome' /\ OwnedByWorkspace' /\ HeldHasRow' /\ CopiesNamed' /\ LegacyAdopted'
      BY <2>1, <2>3, <3>0, <3>2, WentOwned
    <3>5. AllProgress' BY <1>0, <2>1, <3>2, <3>3, LateProgress
    <3>. QED BY <3>4, <3>5 DEF Undisturbed
  <2>. QED BY <1>2, <2>2, <2>3 DEF LookMember
<1>3. CASE CreateWorkspace(a)
  <2>1. act[a].at = "create" /\ UNCHANGED <<legacy, stores>> /\ a \in Members
    BY <1>3 DEF CreateWorkspace, Steady, Roles
  <2>2. CASE workspace # NoWorkspace
    <3>1. Went(a, "refused", act[a].of, act[a].todo) /\ UNCHANGED <<workspace, made>>
      BY <1>0, <1>3, <2>2, MovesWent DEF CreateWorkspace
    <3>2. a \in Erasures /\ act[a].of # NoWorkspace => Progress(a)'
      BY <1>0, <2>1, <3>1
      DEF Went, AllProgress, Progress, FromItems, FromRows, FromDomains, FromSession
    <3>3. GuestsAreHome' /\ OwnedByWorkspace' /\ HeldHasRow' /\ CopiesNamed' /\ LegacyAdopted'
      BY <2>1, <3>1, WentOwned
    <3>4. AllProgress' BY <1>0, <2>1, <3>1, <3>2, LateProgress
    <3>. QED BY <3>3, <3>4 DEF Undisturbed
  <2>3. CASE workspace = NoWorkspace
    <3>1. made' = made + 1 /\ made' \in Workspaces /\ made' # 0 /\ workspace' = made'
      BY <1>0, <1>3, <2>3 DEF CreateWorkspace, AccountTypeOK
    <3>2. Went(a, "join", made', act[a].todo)
      BY <1>0, <1>3, <2>3, <3>1, MovesInWent DEF CreateWorkspace
    <3>3. \A b \in Actors : act[b].at \notin Guests BY <1>0, <2>3 DEF GuestsAreHome
    <3>4. /\ rows = {} /\ \A w \in Workspaces : items[w] = "none"
          /\ legacy \in {NoWorkspace, Deleted}
      BY <1>0, <2>3 DEF OwnedByWorkspace, AccountTypeOK
    <3>5. failures = 0 => copies = {} BY <1>0, <3>3, <3>4 DEF CopiesNamed, AccountTypeOK
    <3>6. GuestsAreHome' BY <3>1, <3>2, <3>3 DEF GuestsAreHome, Went
    <3>7. OwnedByWorkspace' BY <2>1, <3>4 DEF OwnedByWorkspace
    <3>8. HeldHasRow' BY <3>2, <3>3 DEF HeldHasRow, Went
    <3>9. CopiesNamed' /\ LegacyAdopted' BY <2>1, <3>2, <3>5 DEF CopiesNamed, LegacyAdopted, Went
    <3>10. a \in Erasures => Progress(a)'
      BY <3>1, <3>2 DEF Went, Progress, FromItems, FromRows, FromDomains, FromSession
    <3>11. AllProgress' BY <1>0, <2>1, <3>1, <3>2, <3>10, LateProgress
    <3>. QED BY <3>6, <3>7, <3>8, <3>9, <3>11 DEF Undisturbed
  <2>. QED BY <2>2, <2>3
<1>4. CASE Join(a)
  <2>1. /\ act[a].at = "join" /\ act[a].of = workspace /\ member = NoWorkspace
        /\ workspace # NoWorkspace
    BY <1>0, <1>4 DEF Join, GuestsAreHome, Steady, JoinIsFresh
  <2>2. Went(a, "adopt", act[a].of, act[a].todo) /\ UNCHANGED <<workspace, made, legacy, stores>>
    BY <1>0, <1>4, <2>1, MovesWent DEF Join
  <2>3. GuestsAreHome' /\ OwnedByWorkspace' /\ HeldHasRow'
    BY <1>0, <2>1, <2>2 DEF GuestsAreHome, OwnedByWorkspace, HeldHasRow, Went
  <2>4. CopiesNamed' /\ LegacyAdopted'
    BY <1>0, <2>1, <2>2 DEF CopiesNamed, LegacyAdopted, Went
  <2>5. a \in Erasures => Progress(a)'
    BY <1>0, <2>1, <2>2
    DEF AllProgress, Went, Progress, FromItems, FromRows, FromDomains, FromSession
  <2>6. AllProgress' BY <1>0, <2>1, <2>2, <2>5, LateProgress
  <2>. QED BY <2>3, <2>4, <2>6 DEF Undisturbed
<1>5. CASE Adopt(a)
  <2>1. /\ act[a].at = "adopt" /\ act[a].of = workspace /\ workspace # NoWorkspace
        /\ a \in Members
    BY <1>0, <1>5 DEF Adopt, GuestsAreHome, Steady, Roles
  <2>2. Purpose(a) \in {"select", "work"} /\ (a \in Erasures => Purpose(a) = "select")
    BY <2>1 DEF Purpose
  <2>3. /\ Went(a, Purpose(a), act[a].of, act[a].todo) /\ UNCHANGED <<workspace, made, stores>>
        /\ legacy' = IF legacy = NoWorkspace THEN workspace ELSE legacy
    BY <1>0, <1>5, <2>1, <2>2, MovesWent DEF Adopt
  <2>4. GuestsAreHome' /\ OwnedByWorkspace' /\ HeldHasRow'
    BY <1>0, <2>1, <2>2, <2>3 DEF GuestsAreHome, OwnedByWorkspace, HeldHasRow, Went
  <2>5. CopiesNamed' /\ LegacyAdopted'
    BY <1>0, <2>1, <2>2, <2>3 DEF CopiesNamed, LegacyAdopted, Went
  <2>6. a \in Erasures => Progress(a)'
    BY <1>0, <2>1, <2>2, <2>3
    DEF AllProgress, Went, Progress, FromItems, FromRows, FromDomains, FromSession
  <2>7. AllProgress' BY <1>0, <2>1, <2>2, <2>3, <2>6, LateProgress
  <2>. QED BY <2>4, <2>5, <2>7 DEF Undisturbed
<1>6. CASE Work(a)
  <2>1. act[a].at = "work" /\ act[a].of = workspace /\ a \in Visits \cup Reports
    BY <1>0, <1>6 DEF Work, GuestsAreHome, Steady, Roles
  <2>2. /\ Went(a, "done", act[a].of, act[a].todo)
        /\ UNCHANGED <<workspace, made, legacy, items, copies>> /\ rows' = rows \cup {workspace}
    BY <1>0, <1>6, <2>1, MovesWent DEF Work
  <2>3. GuestsAreHome' /\ OwnedByWorkspace' /\ HeldHasRow'
    BY <1>0, <2>1, <2>2 DEF GuestsAreHome, OwnedByWorkspace, HeldHasRow, Went
  <2>4. CopiesNamed' /\ LegacyAdopted'
    BY <1>0, <2>1, <2>2 DEF CopiesNamed, LegacyAdopted, Went
  <2>5. AllProgress' BY <1>0, <2>1, <2>2, LateProgress
  <2>. QED BY <2>3, <2>4, <2>5 DEF Undisturbed
<1>7. CASE ReportLook(a)
  <2>1. /\ act[a].at = "idle" /\ UNCHANGED <<workspace, made, legacy, stores>>
        /\ a \in Reports
    BY <1>7 DEF ReportLook
  <2>2. PICK step \in {"evidence", "refused"}, w \in 0..MaxWorkspaces :
          /\ Went(a, step, w, act[a].todo)
          /\ step = "evidence" => w # NoWorkspace /\ w = member
    <3>1. PICK w \in 1..made :
            \/ w = member /\ MovesIn(a, "evidence", w)
            \/ Moves(a, "refused")
      BY <1>7 DEF ReportLook
    <3>2. w \in Workspaces /\ w \in 0..MaxWorkspaces /\ act[a].of \in 0..MaxWorkspaces
      BY <1>0 DEF AccountTypeOK, Requests
    <3>. QED BY <1>0, <3>1, <3>2, MovesWent, MovesInWent
  <2>3. step = "evidence" => w = workspace BY <2>2 DEF Steady, MemberOfWorkspace
  <2>4. GuestsAreHome' /\ OwnedByWorkspace' /\ HeldHasRow' /\ CopiesNamed' /\ LegacyAdopted'
    BY <2>1, <2>2, <2>3, WentOwned
  <2>5. (\E e \in Erasures : act[e].at = "done" /\ act[e].of # NoWorkspace) => step = "refused"
    BY <1>0, <2>2, <2>3 DEF AllProgress, Progress, FromSession
  <2>6. AllProgress' BY <1>0, <2>1, <2>2, <2>5, EarlyProgress
  <2>. QED BY <2>4, <2>6 DEF Undisturbed
<1>8. CASE ReportWrite(a)
  <2>1. /\ act[a].at = "evidence" /\ act[a].of = workspace /\ workspace # NoWorkspace
        /\ a \in Reports /\ UNCHANGED <<workspace, made, legacy, items, copies, rows>>
    BY <1>0, <1>8 DEF ReportWrite, GuestsAreHome, Steady, Roles
  <2>2. Went(a, "work", act[a].of, act[a].todo) BY <1>0, <1>8, MovesWent DEF ReportWrite
  <2>3. GuestsAreHome' /\ OwnedByWorkspace' /\ HeldHasRow' /\ CopiesNamed' /\ LegacyAdopted'
    BY <2>1, <2>2, WentOwned
  <2>4. AllProgress' BY <1>0, <2>1, <2>2, LateProgress
  <2>. QED BY <2>3, <2>4 DEF Undisturbed
<1>. QED BY <1>1, <1>2, <1>3, <1>4, <1>5, <1>6, <1>7, <1>8 DEF Request

LEMMA MailUndisturbed ==
    ASSUME Steady, Undisturbed, Alone', NEW a \in Actors, Mail(a), UNCHANGED failures
    PROVE  Undisturbed'
<1>. USE DEF AccountSteps, Ended, Deleting, Guests, Erasing, Holding, tenancy, stores
<1>0. /\ act \in [Actors -> Requests] /\ AccountTypeOK
      /\ Alone /\ GuestsAreHome /\ OwnedByWorkspace /\ HeldHasRow /\ CopiesNamed /\ LegacyAdopted
      /\ AllProgress
  BY DEF Steady, AccountTypeOK, Undisturbed
<1>1. CASE MailAuthenticate(a)
  <2>1. a \in Mails /\ act[a].at \in {"idle", "held"} /\ UNCHANGED <<workspace, made, legacy, stores>>
    BY <1>1 DEF MailAuthenticate
  <2>2. CASE Moves(a, "refused")
    <3>1. Went(a, "refused", act[a].of, act[a].todo) BY <1>0, <2>2, MovesWent
    <3>2. GuestsAreHome' /\ OwnedByWorkspace' /\ HeldHasRow' /\ CopiesNamed' /\ LegacyAdopted'
      BY <2>1, <3>1, WentOwned
    <3>3. CASE act[a].at = "idle" BY <1>0, <2>1, <3>1, <3>2, <3>3, EarlyProgress DEF Undisturbed
    <3>4. CASE act[a].at = "held" BY <1>0, <2>1, <3>1, <3>2, <3>4, LateProgress DEF Undisturbed
    <3>. QED BY <2>1, <3>3, <3>4
  <2>3. ASSUME \E z \in Domains : domain[z] = "active", NEW step \in {"hold", "check"},
               MovesIn(a, step, Home), act[a].at = "held" <=> step = "check"
        PROVE  Undisturbed'
    <3>1. Went(a, step, Home, act[a].todo) BY <1>0, <2>3, MovesInWent
    <3>2. workspace = Home BY <2>3 DEF Steady, DomainsOfHome
    <3>3. step = "check" => items[Home] # "none" BY <1>0, <2>3 DEF HeldHasRow
    <3>4. GuestsAreHome' /\ OwnedByWorkspace' /\ HeldHasRow' /\ CopiesNamed' /\ LegacyAdopted'
      BY <2>1, <3>1, <3>2, <3>3, WentOwned
    <3>5. \A e \in Erasures : act[e].at = "done" => act[e].of = NoWorkspace
      BY <1>0, <3>2 DEF AllProgress, Progress, FromSession
    <3>6. CASE act[a].at = "idle"
      BY <1>0, <2>1, <3>1, <3>4, <3>5, <3>6, EarlyProgress DEF Undisturbed
    <3>7. CASE act[a].at = "held" BY <1>0, <2>1, <3>1, <3>4, <3>7, LateProgress DEF Undisturbed
    <3>. QED BY <2>1, <3>6, <3>7
  <2>. QED BY <1>1, <2>1, <2>2, <2>3 DEF MailAuthenticate
<1>2. CASE MailHold(a)
  <2>1. a \in Mails /\ act[a].at = "hold" /\ act[a].of = Home /\ workspace = Home
    BY <1>0, <1>2 DEF MailHold, GuestsAreHome, Steady, Roles
  <2>2. Went(a, "journal", Home, act[a].todo) /\ UNCHANGED <<workspace, made, legacy, copies, rows>>
    BY <1>0, <1>2, <2>1, MovesWent DEF MailHold
  <2>3. /\ \A w \in Workspaces : w # Home => items'[w] = items[w]
        /\ items'[Home] = IF items[Home] = "none" THEN "held" ELSE items[Home]
    BY <1>0, <1>2, <2>1 DEF MailHold, AccountTypeOK
  <2>4. GuestsAreHome' /\ OwnedByWorkspace' /\ HeldHasRow'
    BY <1>0, <2>1, <2>2, <2>3 DEF GuestsAreHome, OwnedByWorkspace, HeldHasRow, Went
  <2>5. CopiesNamed' /\ LegacyAdopted'
    BY <1>0, <2>1, <2>2, <2>3 DEF CopiesNamed, LegacyAdopted, Went, AccountTypeOK
  <2>6. AllProgress' BY <1>0, <2>1, <2>2, LateProgress
  <2>. QED BY <2>4, <2>5, <2>6 DEF Undisturbed
<1>3. CASE MailJournal(a)
  <2>1. a \in Mails /\ act[a].at = "journal" /\ act[a].of = Home /\ workspace = Home
    BY <1>0, <1>3 DEF MailJournal, GuestsAreHome, Steady, Roles
  <2>2. /\ Went(a, "held", Home, act[a].todo) /\ UNCHANGED <<workspace, made, legacy, items, copies>>
        /\ rows' = rows \cup {Home}
    BY <1>0, <1>3, <2>1, MovesWent DEF MailJournal
  <2>3. GuestsAreHome' /\ OwnedByWorkspace' /\ HeldHasRow'
    BY <1>0, <2>1, <2>2 DEF GuestsAreHome, OwnedByWorkspace, HeldHasRow, Went
  <2>4. CopiesNamed' /\ LegacyAdopted'
    BY <1>0, <2>1, <2>2 DEF CopiesNamed, LegacyAdopted, Went
  <2>5. AllProgress' BY <1>0, <2>1, <2>2, LateProgress
  <2>. QED BY <2>3, <2>4, <2>5 DEF Undisturbed
<1>4. CASE MailCheck(a)
  <2>1. /\ a \in Mails /\ act[a].at = "check" /\ act[a].of = Home /\ workspace = Home
        /\ UNCHANGED <<workspace, made, legacy, stores>>
    BY <1>0, <1>4 DEF MailCheck, GuestsAreHome, Steady, Roles
  <2>2. PICK step \in {"refused", "write", "done"} :
          Moves(a, step) /\ (step = "write" => items[Home] # "none")
    BY <1>4, <2>1 DEF MailCheck
  <2>3. Went(a, step, Home, act[a].todo) BY <1>0, <2>1, <2>2, MovesWent
  <2>4. GuestsAreHome' /\ OwnedByWorkspace' /\ HeldHasRow' /\ CopiesNamed' /\ LegacyAdopted'
    BY <2>1, <2>2, <2>3, WentOwned
  <2>5. AllProgress' BY <1>0, <2>1, <2>3, LateProgress
  <2>. QED BY <2>4, <2>5 DEF Undisturbed
<1>5. CASE MailWrite(a)
  <2>1. a \in Mails /\ act[a].at = "write" /\ act[a].of = Home /\ workspace = Home
    BY <1>0, <1>5 DEF MailWrite, GuestsAreHome, Steady, Roles
  <2>2. /\ Went(a, "record", Home, act[a].todo) /\ UNCHANGED <<workspace, made, legacy, items, rows>>
        /\ copies' = copies \cup {Home}
    BY <1>0, <1>5, <2>1, MovesWent DEF MailWrite
  <2>3. GuestsAreHome' /\ OwnedByWorkspace' /\ HeldHasRow'
    BY <1>0, <2>1, <2>2 DEF GuestsAreHome, OwnedByWorkspace, HeldHasRow, Went
  <2>4. CopiesNamed' /\ LegacyAdopted'
    BY <1>0, <2>1, <2>2 DEF CopiesNamed, LegacyAdopted, Went
  <2>5. AllProgress' BY <1>0, <2>1, <2>2, LateProgress
  <2>. QED BY <2>3, <2>4, <2>5 DEF Undisturbed
<1>6. CASE MailRecord(a)
  <2>1. a \in Mails /\ act[a].at = "record" /\ act[a].of = Home /\ workspace = Home
    BY <1>0, <1>6 DEF MailRecord, GuestsAreHome, Steady, Roles
  <2>2. Went(a, "done", Home, act[a].todo) /\ UNCHANGED <<workspace, made, legacy, copies, rows>>
    BY <1>0, <1>6, <2>1, MovesWent DEF MailRecord
  <2>3. /\ \A w \in Workspaces : w # Home => items'[w] = items[w]
        /\ items'[Home] = "stored"
    <3>1. items[Home] # "none" BY <1>0, <2>1 DEF HeldHasRow
    <3>. QED BY <1>0, <1>6, <2>1, <3>1 DEF MailRecord, AccountTypeOK
  <2>4. GuestsAreHome' /\ OwnedByWorkspace' /\ HeldHasRow'
    BY <1>0, <2>1, <2>2, <2>3 DEF GuestsAreHome, OwnedByWorkspace, HeldHasRow, Went
  <2>5. CopiesNamed' /\ LegacyAdopted'
    BY <1>0, <2>1, <2>2, <2>3 DEF CopiesNamed, LegacyAdopted, Went, AccountTypeOK
  <2>6. AllProgress' BY <1>0, <2>1, <2>2, LateProgress
  <2>. QED BY <2>4, <2>5, <2>6 DEF Undisturbed
<1>. QED BY <1>1, <1>2, <1>3, <1>4, <1>5, <1>6 DEF Mail

LEMMA EraseUndisturbed ==
    ASSUME Steady, Undisturbed, Alone', NEW a \in Actors, Erase(a), UNCHANGED failures
    PROVE  Undisturbed'
<1>. USE DEF AccountSteps, Ended, Deleting, Guests, Erasing, Holding, tenancy, stores
<1>0. /\ act \in [Actors -> Requests] /\ AccountTypeOK
      /\ Alone /\ GuestsAreHome /\ OwnedByWorkspace /\ HeldHasRow /\ CopiesNamed /\ LegacyAdopted
      /\ AllProgress
  BY DEF Steady, AccountTypeOK, Undisturbed
<1>1. CASE AdminFind(a)
  <2>1. PICK step \in {"find", "refused"} :
          Moves(a, step) /\ ("user" \notin identity => step = "refused")
    BY <1>1 DEF AdminFind
  <2>2. Went(a, step, act[a].of, act[a].todo) BY <1>0, <2>1, MovesWent
  <2>3. (\E e \in Erasures : act[e].at = "done") => step = "refused"
    BY <2>1 DEF Steady, IdentityErased
  <2>4. act[a].at = "idle" /\ act[a].of = NoWorkspace BY <1>1 DEF AdminFind, Steady, Roles
  <2>5. GuestsAreHome' /\ OwnedByWorkspace' /\ HeldHasRow' /\ CopiesNamed' /\ LegacyAdopted'
    BY <1>1, <2>2, <2>4, WentOwned DEF AdminFind
  <2>6. AllProgress' BY <1>0, <1>1, <2>2, <2>3, <2>4, EarlyProgress DEF AdminFind
  <2>. QED BY <2>5, <2>6 DEF Undisturbed
<1>2. CASE AdminLook(a)
  <2>1. /\ act[a].at = "find" /\ act[a].of = NoWorkspace
        /\ UNCHANGED <<workspace, made, legacy, stores>>
    BY <1>2 DEF AdminLook, Steady, Roles
  <2>2. CASE Moves(a, "session")
    <3>1. Went(a, "session", NoWorkspace, act[a].todo) BY <1>0, <2>1, <2>2, MovesWent
    <3>2. GuestsAreHome' /\ OwnedByWorkspace' /\ HeldHasRow' /\ CopiesNamed' /\ LegacyAdopted'
      BY <2>1, <3>1, WentOwned
    <3>3. AllProgress' BY <1>0, <2>1, <3>1, LateProgress
    <3>. QED BY <3>2, <3>3 DEF Undisturbed
  <2>3. CASE MovesIn(a, "select", member) /\ member # NoWorkspace /\ member = workspace
    <3>1. member \in 0..MaxWorkspaces /\ made # 0 BY <1>0, <2>3 DEF AccountTypeOK
    <3>2. Went(a, "select", member, act[a].todo) BY <1>0, <2>3, <3>1, MovesInWent
    <3>3. a \in Erasures => Progress(a)'
      BY <2>1, <2>3, <3>1, <3>2
      DEF Went, Progress, FromItems, FromRows, FromDomains, FromSession
    <3>4. GuestsAreHome' /\ OwnedByWorkspace' /\ HeldHasRow' /\ CopiesNamed' /\ LegacyAdopted'
      BY <2>1, <3>2, WentOwned
    <3>5. AllProgress' BY <1>0, <2>1, <3>2, <3>3, LateProgress
    <3>. QED BY <3>4, <3>5 DEF Undisturbed
  <2>. QED BY <1>2, <2>2, <2>3 DEF AdminLook
<1>3. CASE EraseSelect(a) \/ EraseTeardown(a) \/ EraseDomains(a) \/ EraseMember(a)
  <2>. USE DEF EraseSelect, EraseTeardown, EraseDomains, EraseMember
  <2>1. PICK step \in {"refused", "teardown", "member", "workspace"}, T \in SUBSET Domains :
          /\ Went(a, step, act[a].of, T)
          /\ step = "member" => act[a].at = "domains"
          /\ step = "workspace" => act[a].at = "member"
    <3>1. CASE \E step \in {"refused", "member", "workspace"} :
                 /\ Moves(a, step)
                 /\ step = "member" => act[a].at = "domains"
                 /\ step = "workspace" => act[a].at = "member"
      <4>1. act[a].todo \in SUBSET Domains BY <1>0 DEF Requests
      <4>. QED BY <1>0, <3>1, <4>1, MovesWent
    <3>2. CASE EraseSelect(a) /\ act' = [act EXCEPT ![a].at = "teardown", ![a].todo = Connected(act[a].of)]
      <4>1. Went(a, "teardown", act[a].of, Connected(act[a].of))
        BY <1>0, <3>2 DEF Went, Requests, Connected
      <4>. QED BY <4>1 DEF Connected
    <3>3. CASE act[a].at = "teardown" /\ \E z \in act[a].todo : act' = [act EXCEPT ![a].todo = @ \ {z}]
      <4>1. PICK z \in act[a].todo : act' = [act EXCEPT ![a].todo = @ \ {z}] BY <3>3
      <4>2. Went(a, "teardown", act[a].of, act[a].todo \ {z}) BY <1>0, <3>3, <4>1 DEF Went, Requests
      <4>3. act[a].todo \ {z} \in SUBSET Domains BY <1>0 DEF Requests
      <4>. QED BY <4>2, <4>3
    <3>. QED BY <1>3, <3>1, <3>2, <3>3
  <2>2. /\ act[a].at \in {"select", "teardown", "domains", "member"}
        /\ UNCHANGED <<workspace, made, legacy, stores>>
    BY <1>3
  <2>3. a \in Erasures BY <2>2 DEF Steady, Roles
  <2>4. act[a].of # NoWorkspace => Progress(a)'
    BY <1>0, <2>1, <2>2, <2>3
    DEF AllProgress, Went, Progress, FromItems, FromRows, FromDomains, FromSession
  <2>5. GuestsAreHome' /\ OwnedByWorkspace' /\ HeldHasRow' /\ CopiesNamed' /\ LegacyAdopted'
    BY <2>1, <2>2, WentOwned
  <2>6. AllProgress' BY <1>0, <2>1, <2>2, <2>4, EarlyProgress
  <2>. QED BY <2>5, <2>6 DEF Undisturbed
<1>4. CASE EraseList(a)
  <2>1. /\ act[a].at = "teardown" /\ UNCHANGED <<workspace, made, legacy, stores>>
        /\ a \in Erasures /\ act[a].of \in 0..MaxWorkspaces
    BY <1>0, <1>4 DEF EraseList, Steady, Roles, Requests
  <2>2. PICK step \in {"drop", "items"} :
          Moves(a, step) /\ (step = "items" => items[act[a].of] # "stored")
    BY <1>4 DEF EraseList
  <2>3. Went(a, step, act[a].of, act[a].todo) BY <1>0, <2>2, MovesWent
  <2>4. \A b \in Actors : act[b].at # "record" BY <2>1, <2>3 DEF Alone, Went
  <2>5. step = "items" /\ failures = 0 => act[a].of \notin copies
    BY <1>0, <2>2, <2>4 DEF CopiesNamed
  <2>6. act[a].of # NoWorkspace => Progress(a)'
    BY <1>0, <2>1, <2>3, <2>5
    DEF AllProgress, Went, Progress, FromItems, FromRows, FromDomains, FromSession
  <2>7. GuestsAreHome' /\ OwnedByWorkspace' /\ HeldHasRow' /\ CopiesNamed' /\ LegacyAdopted'
    BY <2>1, <2>3, WentOwned
  <2>8. AllProgress' BY <1>0, <2>1, <2>3, <2>6, EarlyProgress
  <2>. QED BY <2>7, <2>8 DEF Undisturbed
<1>5. CASE EraseDrop(a)
  <2>1. /\ act[a].at = "drop" /\ UNCHANGED <<workspace, made, legacy, items, rows>> /\ a \in Erasures
        /\ copies' \subseteq copies
    BY <1>5 DEF EraseDrop, Steady, Roles
  <2>2. PICK step \in {"items", "refused"} :
          Moves(a, step) /\ (step = "items" => act[a].of \notin copies')
    BY <1>5 DEF EraseDrop
  <2>3. Went(a, step, act[a].of, act[a].todo) BY <1>0, <2>2, MovesWent
  <2>4. act[a].of # NoWorkspace => Progress(a)'
    BY <1>0, <2>1, <2>2, <2>3
    DEF AllProgress, Went, Progress, FromItems, FromRows, FromDomains, FromSession
  <2>5. GuestsAreHome' /\ OwnedByWorkspace' /\ HeldHasRow'
    BY <1>0, <2>1, <2>3 DEF GuestsAreHome, OwnedByWorkspace, HeldHasRow, Went
  <2>6. CopiesNamed' /\ LegacyAdopted'
    BY <1>0, <2>1, <2>3 DEF CopiesNamed, LegacyAdopted, Went
  <2>7. AllProgress' BY <1>0, <2>1, <2>3, <2>4, EarlyProgress
  <2>. QED BY <2>5, <2>6, <2>7 DEF Undisturbed
<1>6. CASE EraseItems(a)
  <2>1. /\ act[a].at = "items" /\ UNCHANGED <<workspace, made, legacy, copies, rows>> /\ a \in Erasures
        /\ act[a].of \in 0..MaxWorkspaces
    BY <1>0, <1>6 DEF EraseItems, Steady, Roles, Requests
  <2>2. Went(a, "rows", act[a].of, act[a].todo) BY <1>0, <1>6, MovesWent DEF EraseItems
  <2>3. \A w \in Workspaces : items'[w] = IF w = act[a].of THEN "none" ELSE items[w]
    BY <1>0, <1>6 DEF EraseItems, AccountTypeOK
  <2>4. \A b \in Actors : act[b].at \notin Guests BY <1>0, <2>1 DEF Alone
  <2>5. act[a].of # NoWorkspace => act[a].of \in Workspaces /\ Progress(a)
    BY <1>0, <2>1 DEF AllProgress
  <2>6. act[a].of # NoWorkspace => Progress(a)'
    BY <2>1, <2>2, <2>3, <2>5 DEF Went, Progress, FromItems, FromRows, FromDomains, FromSession
  <2>7. GuestsAreHome' /\ OwnedByWorkspace' /\ HeldHasRow'
    BY <1>0, <2>1, <2>2, <2>3, <2>4 DEF GuestsAreHome, OwnedByWorkspace, HeldHasRow, Went
  <2>8. CopiesNamed'
    <3>1. failures = 0 => \A w \in copies : w \in Workspaces /\ w # act[a].of /\ items[w] = "stored"
      BY <1>0, <2>1, <2>4, <2>5 DEF CopiesNamed, Progress, FromItems, AccountTypeOK
    <3>. QED BY <2>1, <2>3, <3>1 DEF CopiesNamed
  <2>9. LegacyAdopted' BY <1>0, <2>1, <2>2 DEF LegacyAdopted, Went
  <2>10. AllProgress' BY <1>0, <2>1, <2>2, <2>3, <2>6, EarlyProgress
  <2>. QED BY <2>7, <2>8, <2>9, <2>10 DEF Undisturbed
<1>7. CASE EraseRest(a)
  <2>1. /\ act[a].at = "rows" /\ UNCHANGED <<workspace, made, items, copies>> /\ a \in Erasures
        /\ act[a].of \in 0..MaxWorkspaces /\ rows' = rows \ {act[a].of}
        /\ legacy' = IF legacy = act[a].of THEN Deleted ELSE legacy
    BY <1>0, <1>7 DEF EraseRest, Steady, Roles, Requests
  <2>2. Went(a, "domains", act[a].of, act[a].todo) BY <1>0, <1>7, MovesWent DEF EraseRest
  <2>3. act[a].of # NoWorkspace => Progress(a)'
    BY <1>0, <2>1, <2>2
    DEF AllProgress, Went, Progress, FromItems, FromRows, FromDomains, FromSession
  <2>4. GuestsAreHome' /\ OwnedByWorkspace' /\ HeldHasRow'
    BY <1>0, <2>1, <2>2 DEF GuestsAreHome, OwnedByWorkspace, HeldHasRow, Went
  <2>5. CopiesNamed' /\ LegacyAdopted'
    BY <1>0, <2>1, <2>2 DEF CopiesNamed, LegacyAdopted, Went
  <2>6. AllProgress' BY <1>0, <2>1, <2>2, <2>3, EarlyProgress
  <2>. QED BY <2>4, <2>5, <2>6 DEF Undisturbed
<1>8. CASE EraseWorkspace(a)
  <2>1. /\ act[a].at = "workspace" /\ UNCHANGED <<made, legacy, stores>> /\ a \in Erasures
        /\ workspace' = IF workspace = act[a].of THEN NoWorkspace ELSE workspace
    BY <1>8 DEF EraseWorkspace, Steady, Roles
  <2>2. Went(a, "session", act[a].of, act[a].todo) BY <1>0, <1>8, MovesWent DEF EraseWorkspace
  <2>3. \A b \in Actors : act[b].at \notin Guests BY <1>0, <2>1 DEF Alone
  <2>4. act[a].of # NoWorkspace => Progress(a) /\ workspace' = NoWorkspace
    BY <1>0, <2>1 DEF AllProgress, Progress
  <2>5. act[a].of # NoWorkspace => Progress(a)'
    BY <2>1, <2>2, <2>4 DEF Went, Progress, FromItems, FromRows, FromDomains, FromSession
  <2>6. GuestsAreHome' /\ HeldHasRow' BY <2>2, <2>3 DEF GuestsAreHome, HeldHasRow, Went
  <2>7. OwnedByWorkspace'
    <3>1. CASE workspace' = workspace BY <1>0, <2>1, <3>1 DEF OwnedByWorkspace
    <3>2. CASE workspace = act[a].of /\ act[a].of # NoWorkspace
      BY <1>0, <2>1, <2>4, <3>2 DEF OwnedByWorkspace, Progress, FromRows, FromItems, FromDomains
    <3>. QED BY <2>1, <3>1, <3>2
  <2>8. CopiesNamed' /\ LegacyAdopted'
    BY <1>0, <2>1, <2>2 DEF CopiesNamed, LegacyAdopted, Went
  <2>9. AllProgress' BY <1>0, <2>1, <2>2, <2>5, EarlyProgress
  <2>. QED BY <2>6, <2>7, <2>8, <2>9 DEF Undisturbed
<1>9. CASE EraseIdentity(a)
  <2>1. /\ act[a].at \in {"session", "account", "user"} /\ UNCHANGED <<workspace, made, legacy, stores>>
        /\ a \in Erasures
    BY <1>9 DEF EraseIdentity, Steady, Roles
  <2>2. PICK step \in {"account", "user", "done"} : Moves(a, step) BY <1>9 DEF EraseIdentity
  <2>3. Went(a, step, act[a].of, act[a].todo) BY <1>0, <2>2, MovesWent
  <2>4. \A b \in Actors : b # a =>
          act'[b].at \in Ended \/ (act'[b].of = act'[a].of /\ act'[b].at \in Erasing)
    BY <1>0, <2>1, <2>3 DEF Alone, Went
  <2>5. act[a].of # NoWorkspace => Progress(a)'
    BY <1>0, <2>1, <2>3, <2>4
    DEF AllProgress, Went, Progress, FromItems, FromRows, FromDomains, FromSession
  <2>6. GuestsAreHome' /\ OwnedByWorkspace' /\ HeldHasRow' /\ CopiesNamed' /\ LegacyAdopted'
    BY <2>1, <2>3, WentOwned
  <2>7. AllProgress' BY <1>0, <2>1, <2>3, <2>5, EarlyProgress
  <2>. QED BY <2>6, <2>7 DEF Undisturbed
<1>. QED BY <1>1, <1>2, <1>3, <1>4, <1>5, <1>6, <1>7, <1>8, <1>9 DEF Erase

\* Undisturbed says nothing of the identity, the domains and the membership.
LEMMA StillUndisturbed ==
    ASSUME Undisturbed, UNCHANGED <<workspace, made, legacy, stores, act, failures>>
    PROVE  Undisturbed'
BY DEF Undisturbed, Alone, GuestsAreHome, OwnedByWorkspace, HeldHasRow, CopiesNamed, LegacyAdopted,
   AllProgress, Progress, stores

LEMMA FailsUndisturbed ==
    ASSUME Steady, Undisturbed, Alone', NEW a \in Actors, Fails(a)
    PROVE  Undisturbed'
<1>. USE DEF AccountSteps, Ended, Deleting, Guests, Erasing, Holding, tenancy, stores
<1>1. /\ act \in [Actors -> Requests] /\ failures' # 0
      /\ act[a].at \notin Ended /\ UNCHANGED <<workspace, made, legacy, stores>>
  BY DEF Steady, AccountTypeOK, Fails
<1>2. Went(a, "failed", act[a].of, act[a].todo) BY <1>1, MovesWent DEF Fails
<1>3. GuestsAreHome' /\ OwnedByWorkspace' /\ HeldHasRow' /\ CopiesNamed' /\ LegacyAdopted'
  BY <1>1, <1>2
  DEF Undisturbed, GuestsAreHome, OwnedByWorkspace, HeldHasRow, CopiesNamed, LegacyAdopted, Went
<1>4. act[a].of # NoWorkspace /\ a \in Erasures => Progress(a)'
  BY <1>1, <1>2 DEF Undisturbed, AllProgress, Progress, Went, FromItems, FromRows, FromDomains, FromSession
<1>5. CASE act[a].at \in Erasing
  BY <1>1, <1>2, <1>3, <1>4, <1>5, EarlyProgress DEF Undisturbed
<1>6. CASE act[a].at \notin Erasing
  BY <1>1, <1>2, <1>3, <1>4, <1>6, LateProgress DEF Undisturbed
<1>. QED BY <1>5, <1>6

AccountInv == Steady /\ (~crossed => Undisturbed)

LEMMA AccountInitUndisturbed == AccountInit => Undisturbed
<1>. SUFFICES ASSUME AccountInit PROVE Undisturbed OBVIOUS
<1>. USE DEF AccountInit, Idle
<1>1. \A a \in Actors : act[a].at = "idle" /\ act[a].of = NoWorkspace OBVIOUS
<1>2. Alone /\ GuestsAreHome /\ HeldHasRow /\ AllProgress
  BY <1>1 DEF Alone, GuestsAreHome, HeldHasRow, AllProgress, Deleting, Guests, Holding
<1>3. OwnedByWorkspace BY DEF OwnedByWorkspace
<1>4. CopiesNamed /\ LegacyAdopted BY DEF CopiesNamed, LegacyAdopted
<1>. QED BY <1>2, <1>3, <1>4 DEF Undisturbed

LEMMA AccountNextInv ==
    ASSUME AccountInv, [AccountNext]_accountVars
    PROVE  AccountInv'
<1>1. Steady' BY AccountNextSteady DEF AccountInv
<1>2. ASSUME AccountNext, ~crossed' PROVE Undisturbed'
  <2>1. Steady /\ Undisturbed /\ Alone' BY <1>2, NotCrossing DEF AccountInv, AccountNext
  <2>2. CASE SignIn BY <2>1, <2>2, StillUndisturbed DEF SignIn, tenancy
  <2>3. ASSUME NEW z \in Domains, Provisioned(z) PROVE Undisturbed'
    BY <2>1, <2>3, StillUndisturbed DEF Provisioned, tenancy
  <2>4. ASSUME NEW a \in Actors, Fails(a) PROVE Undisturbed' BY <2>1, <2>4, FailsUndisturbed
  <2>5. ASSUME NEW a \in Actors, Request(a) \/ Mail(a) \/ Erase(a), UNCHANGED failures
        PROVE  Undisturbed'
    BY <2>1, <2>5, RequestUndisturbed, MailUndisturbed, EraseUndisturbed
  <2>. QED BY <1>2, <2>2, <2>3, <2>4, <2>5 DEF AccountNext
<1>3. ASSUME UNCHANGED accountVars, ~crossed' PROVE Undisturbed'
  BY <1>3, StillUndisturbed DEF AccountInv, accountVars, tenancy
<1>. QED BY <1>1, <1>2, <1>3 DEF AccountInv

\* An erasure that nothing crossed leaves nothing of the account when it answers,
\* but the evidence of reported emails.
THEOREM OnlyEvidenceIsLeft == AccountSpec => []OnlyEvidenceOutlives
<1>1. AccountInv => OnlyEvidenceOutlives
  <2>. SUFFICES ASSUME AccountInv, NEW e \in Erasures, ~crossed, act[e].at = "done",
                       act[e].of # NoWorkspace
                PROVE  /\ identity = {} /\ workspace = NoWorkspace /\ member = NoWorkspace
                       /\ rows = {} /\ \A w \in Workspaces : items[w] = "none"
                       /\ \A z \in Domains : domain[z] = "gone"
                       /\ failures = 0 => copies = {} /\ legacy = Deleted
    BY DEF OnlyEvidenceOutlives
  <2>1. Steady /\ Undisturbed /\ AccountTypeOK BY DEF AccountInv, Steady
  <2>2. identity = {} BY <2>1 DEF Steady, IdentityErased
  <2>3. workspace = NoWorkspace /\ made # 0
    BY <2>1 DEF Undisturbed, AllProgress, Progress, FromSession
  <2>4. member = NoWorkspace /\ \A z \in Domains : domain[z] = "gone"
    BY <2>1, <2>3 DEF Steady, MemberOfWorkspace, DomainsOfHome
  <2>5. rows = {} /\ \A w \in Workspaces : items[w] = "none"
    BY <2>1, <2>3 DEF Undisturbed, OwnedByWorkspace, AccountTypeOK
  <2>6. \A a \in Actors : act[a].at \notin Guests
    BY <2>1, <2>3 DEF Undisturbed, GuestsAreHome
  <2>7. failures = 0 => copies = {}
    BY <2>1, <2>5, <2>6 DEF Undisturbed, CopiesNamed, Guests, AccountTypeOK
  <2>8. failures = 0 => legacy = Deleted
    BY <2>1, <2>3, <2>6 DEF Undisturbed, OwnedByWorkspace, LegacyAdopted, Guests
  <2>. QED BY <2>2, <2>3, <2>4, <2>5, <2>7, <2>8
<1>2. AccountInit => AccountInv BY AccountInitSteady, AccountInitUndisturbed DEF AccountInv
<1>. QED BY <1>1, <1>2, AccountNextInv, PTL DEF AccountSpec

-----------------------------------------------------------------------------
(* Operational exercises: the inductive invariant.                         *)

USE CallsAssumption DEF Calls

\* A request at its INSERT has no row yet, and has the signal as long as its
\* exercise is not over.
Inserting ==
    \A e \in Starts : call[e].at \in {"idle", "sync", "insert"} => row[e] = "absent"
InsertingIsActive ==
    early = {} =>
        \A e \in Starts : call[e].at = "insert" => active = e \/ e \in expired

\* A recovery knows its exercise, and clears a signal whose row is closed.
Recovering ==
    \A c \in Calls :
        /\ call[c].at \in {"update", "clear"} => call[c].of \in Starts
        /\ call[c].at = "clear" /\ early = {} => row[call[c].of] = "recovered"

ManualIsRecovered == \A e \in manual \ early : row[e] = "recovered"

DueIsExpired == \A c \in Calls : call[c].due \subseteq expired

Running == {e \in Starts \ expired : row[e] = "active"}

\* After a restart no signal is set until a request restores the row's one: no
\* request inserts or recovers, and one that reconciles still has that row to do.
Unrestored(e) ==
    /\ active = None
    /\ \A c \in Calls :
         /\ call[c].at \notin {"insert", "update"}
         /\ call[c].at = "sync" => call[c].rows \ call[c].due \subseteq Running \cup expired
    /\ \A c \in Starts : call[c].at = "sync" => e \in call[c].rows \ call[c].due

RunningIsActive == early = {} => \A e \in Running : active = e \/ Unrestored(e)

ExerciseInv ==
    /\ TypeOK /\ Inserting /\ InsertingIsActive /\ Recovering /\ ManualIsRecovered
    /\ DueIsExpired /\ RunningIsActive /\ OneRunsAtATime

CallRecords == [at : Steps, rows : SUBSET Starts, due : SUBSET Starts, of : Starts \cup {None}]

LEMMA InitInv == Init => ExerciseInv
<1>. SUFFICES ASSUME Init PROVE ExerciseInv OBVIOUS
<1>1. TypeOK BY DEF Init, TypeOK, Steps
<1>. QED
  BY <1>1 DEF Init, ExerciseInv, Inserting, InsertingIsActive, Recovering, ManualIsRecovered,
     DueIsExpired, RunningIsActive, Running, OneRunsAtATime

\* What a step does to the record of its own call and to no other.
LEMMA GotoCall ==
    ASSUME TypeOK, NEW c \in Calls, NEW step \in Steps, Goto(c, step)
    PROVE  /\ call' \in [Calls -> CallRecords]
           /\ call'[c].at = step /\ call'[c].rows = call[c].rows
           /\ call'[c].due = call[c].due /\ call'[c].of = call[c].of
           /\ \A d \in Calls : d # c => call'[d] = call[d]
<1>1. call \in [Calls -> CallRecords] /\ call[c] \in CallRecords BY DEF TypeOK, CallRecords
<1>2. [call[c] EXCEPT !.at = step] \in CallRecords BY <1>1 DEF CallRecords
<1>. QED BY <1>1, <1>2 DEF Goto, CallRecords

\* Types, from the types of what a step assigns.
LEMMA Typed ==
    ASSUME TypeOK, active' \in Starts \cup {None},
           row' \in [Starts -> {"absent", "active", "recovered"}], expired' \subseteq Starts,
           timers' \subseteq {"signal", "row"} \X Starts, call' \in [Calls -> CallRecords],
           manual' \subseteq Starts, auto' \subseteq Starts, early' \subseteq Starts,
           enabled' \in BOOLEAN, forgotten' \subseteq Starts
    PROVE  TypeOK'
BY DEF TypeOK, CallRecords

\* The signal after a look at it is the old one unless that is over.
LEMMA CurrentOf ==
    ASSUME TypeOK
    PROVE  /\ Current \in Starts \cup {None} /\ (Current = active \/ Current = None)
           /\ active \notin expired => Current = active
           /\ TimersAfterCurrent \subseteq {"signal", "row"} \X Starts
BY DEF TypeOK, Current, TimersAfterCurrent

\* A step of nobody's request that at most clears an expired signal.
LEMMA SignalInv ==
    ASSUME ExerciseInv, UNCHANGED <<row, expired, call, manual, early>>,
           auto' \subseteq Starts, timers' \subseteq {"signal", "row"} \X Starts,
           enabled' \in BOOLEAN, forgotten' \subseteq Starts,
           active' = active \/ (active \in expired /\ active' = None)
    PROVE  ExerciseInv'
<1>. USE DEF ExerciseInv
<1>1. TypeOK' BY DEF TypeOK
<1>2. InsertingIsActive' BY DEF InsertingIsActive
<1>3. RunningIsActive' BY DEF RunningIsActive, Running, Unrestored
<1>. QED
  BY <1>1, <1>2, <1>3 DEF Inserting, Recovering, ManualIsRecovered, DueIsExpired, OneRunsAtATime

LEMMA ExpireInv ==
    ASSUME ExerciseInv, NEW e \in Starts, Expire(e)
    PROVE  ExerciseInv'
<1>. USE DEF ExerciseInv, Expire
<1>1. TypeOK' BY DEF TypeOK
<1>2. InsertingIsActive' BY DEF InsertingIsActive
<1>3. Running' \subseteq Running /\ Running \subseteq Running' \cup expired' BY DEF Running
<1>4. RunningIsActive' BY <1>3 DEF RunningIsActive, Unrestored
<1>5. OneRunsAtATime' BY DEF OneRunsAtATime
<1>. QED
  BY <1>1, <1>2, <1>4, <1>5 DEF Inserting, Recovering, ManualIsRecovered, DueIsExpired

\* Closing the row of an exercise that is over.
LEMMA PersistInv ==
    ASSUME ExerciseInv, NEW e \in expired, PersistRecovery(e),
           UNCHANGED <<active, expired, manual, early>>,
           enabled' \in BOOLEAN, forgotten' \subseteq Starts,
           timers' \subseteq {"signal", "row"} \X Starts,
           call' \in [Calls -> CallRecords],
           \A c \in Calls :
              /\ call'[c].at = call[c].at /\ call'[c].of = call[c].of /\ call'[c].due = call[c].due
              /\ call'[c].rows \ call'[c].due = call[c].rows \ call[c].due
    PROVE  ExerciseInv'
<1>. USE DEF ExerciseInv
<1>0. /\ row \in [Starts -> {"absent", "active", "recovered"}] /\ e \in Starts
      /\ row' \in [Starts -> {"absent", "active", "recovered"}]
      /\ \A f \in Starts : row'[f] = row[f] \/ (f = e /\ row[f] = "active" /\ row'[f] = "recovered")
  BY DEF TypeOK, PersistRecovery
<1>1. TypeOK'
  <2>1. auto' \subseteq Starts BY <1>0 DEF TypeOK, PersistRecovery
  <2>. QED BY <1>0, <2>1 DEF TypeOK, CallRecords
<1>2. Running' = Running BY <1>0 DEF Running
<1>3. Inserting' BY <1>0 DEF Inserting
<1>4. InsertingIsActive' BY DEF InsertingIsActive
<1>5. Recovering' BY <1>0 DEF Recovering
<1>6. ManualIsRecovered' BY <1>0 DEF ManualIsRecovered, TypeOK
<1>7. DueIsExpired' BY DEF DueIsExpired
<1>8. RunningIsActive'
  <2>1. \A f \in Running : Unrestored(f) => Unrestored(f)' BY <1>2 DEF Unrestored
  <2>. QED BY <1>2, <2>1 DEF RunningIsActive
<1>9. OneRunsAtATime' BY <1>0 DEF OneRunsAtATime
<1>. QED BY <1>1, <1>3, <1>4, <1>5, <1>6, <1>7, <1>8, <1>9

LEMMA SyncReadInv ==
    ASSUME ExerciseInv, NEW c \in Calls, SyncRead(c)
    PROVE  ExerciseInv'
<1>. USE DEF ExerciseInv
<1>0. call' = [call EXCEPT ![c] =
                [@ EXCEPT !.at = "sync", !.rows = ActiveRows, !.due = ActiveRows \cap expired]]
      /\ UNCHANGED <<active, row, expired, timers, enabled, manual, auto, early, forgotten>>
      /\ call[c].at \in {"read", "idle"} /\ (call[c].at = "read" => c \in Boots)
  BY DEF SyncRead
<1>1. /\ call' \in [Calls -> CallRecords] /\ call'[c].at = "sync" /\ call'[c].rows = ActiveRows
      /\ call'[c].due = ActiveRows \cap expired /\ call'[c].of = call[c].of
      /\ \A d \in Calls : d # c => call'[d] = call[d]
  <2>1. call \in [Calls -> CallRecords] /\ call[c] \in CallRecords BY DEF TypeOK, CallRecords
  <2>0. ActiveRows \subseteq Starts BY DEF ActiveRows
  <2>2. [call[c] EXCEPT !.at = "sync", !.rows = ActiveRows, !.due = ActiveRows \cap expired] \in CallRecords
    BY <2>1, <2>0 DEF CallRecords, Steps
  <2>. QED BY <1>0, <2>1, <2>2 DEF CallRecords
<1>2. TypeOK' BY <1>0, <1>1 DEF TypeOK, CallRecords
<1>3. Inserting' BY <1>0, <1>1 DEF Inserting
<1>4. InsertingIsActive' BY <1>0, <1>1 DEF InsertingIsActive
<1>5. Recovering' BY <1>0, <1>1 DEF Recovering
<1>6. DueIsExpired' BY <1>0, <1>1 DEF DueIsExpired
<1>7. RunningIsActive'
  <2>1. ActiveRows \ (ActiveRows \cap expired) = Running /\ Running' = Running
    BY <1>0 DEF Running, ActiveRows
  <2>2. \A f \in Running : Unrestored(f) => Unrestored(f)'
    BY <1>0, <1>1, <2>1 DEF Unrestored
  <2>. QED BY <1>0, <2>1, <2>2 DEF RunningIsActive
<1>. QED
  BY <1>0, <1>2, <1>3, <1>4, <1>5, <1>6, <1>7 DEF ManualIsRecovered, OneRunsAtATime

\* A call has done with one of its rows.
LEMMA RowDone ==
    ASSUME TypeOK, NEW c \in Calls, NEW e, call' = [call EXCEPT ![c].rows = @ \ {e}]
    PROVE  /\ call' \in [Calls -> CallRecords]
           /\ call'[c].at = call[c].at /\ call'[c].rows = call[c].rows \ {e}
           /\ call'[c].due = call[c].due /\ call'[c].of = call[c].of
           /\ \A d \in Calls : d # c => call'[d] = call[d]
<1>1. call \in [Calls -> CallRecords] /\ call[c] \in CallRecords BY DEF TypeOK, CallRecords
<1>2. [call[c] EXCEPT !.rows = @ \ {e}] \in CallRecords BY <1>1 DEF CallRecords
<1>. QED BY <1>1, <1>2 DEF CallRecords

LEMMA SyncDueInv ==
    ASSUME ExerciseInv, NEW c \in Calls, NEW e \in Starts, SyncDue(c, e)
    PROVE  ExerciseInv'
<1>1. e \in expired /\ e \in call[c].due /\ call' = [call EXCEPT ![c].rows = @ \ {e}]
      /\ timers' = timers /\ enabled' = enabled /\ forgotten' = forgotten \ {e}
  BY DEF SyncDue, ExerciseInv, DueIsExpired
<1>2. /\ timers' \subseteq {"signal", "row"} \X Starts
      /\ enabled' \in BOOLEAN /\ forgotten' \subseteq Starts
  BY <1>1 DEF ExerciseInv, TypeOK
<1>3. /\ call' \in [Calls -> CallRecords]
      /\ call'[c].at = call[c].at /\ call'[c].rows = call[c].rows \ {e}
      /\ call'[c].due = call[c].due /\ call'[c].of = call[c].of
      /\ \A d \in Calls : d # c => call'[d] = call[d]
  BY <1>1, RowDone DEF ExerciseInv
<1>4. \A d \in Calls :
        /\ call'[d].at = call[d].at /\ call'[d].of = call[d].of /\ call'[d].due = call[d].due
        /\ call'[d].rows \ call'[d].due = call[d].rows \ call[d].due
  BY <1>1, <1>3
<1>. QED BY <1>1, <1>2, <1>3, <1>4, PersistInv DEF SyncDue

\* A call that ends without touching a row or the signal.
LEMMA EndsInv ==
    ASSUME ExerciseInv, NEW c \in Calls, Goto(c, "done"),
           UNCHANGED <<active, row, expired, timers, enabled, manual, auto, early>>,
           forgotten' \subseteq Starts
    PROVE  ExerciseInv'
<1>. USE DEF ExerciseInv
<1>1. /\ call' \in [Calls -> CallRecords]
      /\ call'[c].at = "done" /\ call'[c].rows = call[c].rows
      /\ call'[c].due = call[c].due /\ call'[c].of = call[c].of
      /\ \A d \in Calls : d # c => call'[d] = call[d]
  BY GotoCall DEF Steps
<1>2. TypeOK' BY <1>1, Typed DEF TypeOK
<1>3. RunningIsActive'
  <2>1. \A f \in Running : Unrestored(f) => Unrestored(f)' BY <1>1 DEF Unrestored, Running
  <2>. QED BY <2>1 DEF RunningIsActive, Running
<1>. QED
  BY <1>1, <1>2, <1>3 DEF Inserting, InsertingIsActive, Recovering, ManualIsRecovered,
     DueIsExpired, OneRunsAtATime

LEMMA FailsInv ==
    ASSUME ExerciseInv, NEW c \in Calls, SyncFails(c) \/ RecoverFails(c)
    PROVE  ExerciseInv'
<1>1. forgotten' \subseteq Starts
  <2>1. forgotten \subseteq Starts /\ call[c].rows \subseteq Starts /\ ActiveRows \subseteq Starts
    BY DEF ExerciseInv, TypeOK, ActiveRows
  <2>. QED BY <2>1 DEF SyncFails, RecoverFails
<1>. QED BY <1>1, EndsInv DEF SyncFails, RecoverFails

LEMMA SyncRestoreInv ==
    ASSUME ExerciseInv, NEW c \in Calls, NEW e \in Starts, SyncRestore(c, e)
    PROVE  ExerciseInv'
<1>. USE DEF ExerciseInv
<1>1. /\ call[c].at = "sync" /\ e \in call[c].rows \ call[c].due
      /\ call' = [call EXCEPT ![c].rows = @ \ {e}]
      /\ UNCHANGED <<row, expired, enabled, manual, auto, early>>
      /\ active' \in {active, e, None}
      /\ Current # None => active' = active
      /\ Current = None => active' = IF e \in expired THEN None ELSE e
  BY DEF SyncRestore
<1>2. /\ call' \in [Calls -> CallRecords]
      /\ call'[c].at = call[c].at /\ call'[c].rows = call[c].rows \ {e}
      /\ call'[c].due = call[c].due /\ call'[c].of = call[c].of
      /\ \A d \in Calls : d # c => call'[d] = call[d]
  BY <1>1, RowDone
<1>3. TypeOK'
  <2>1. timers' \subseteq {"signal", "row"} \X Starts
    BY CurrentOf DEF SyncRestore, TypeOK
  <2>2. forgotten' \subseteq Starts BY DEF SyncRestore, TypeOK
  <2>. QED BY <1>1, <1>2, <2>1, <2>2, Typed DEF TypeOK
<1>4. None \notin Starts /\ \A f \in Starts : active = f /\ f \notin expired => active' = f
  BY <1>1, CurrentOf
<1>5. InsertingIsActive' BY <1>1, <1>2, <1>4 DEF InsertingIsActive
<1>6. Running' = Running BY <1>1 DEF Running
<1>7. RunningIsActive'
  <2> SUFFICES ASSUME early = {}, NEW f \in Running PROVE active' = f \/ Unrestored(f)'
    BY <1>1, <1>6 DEF RunningIsActive
  <2>1. f \in Starts \ expired BY DEF Running
  <2>2. CASE active = f BY <1>4, <2>1, <2>2
  <2>3. CASE Unrestored(f)
    <3>1. active = None /\ Current = None BY <2>3, CurrentOf DEF Unrestored
    <3>2. e \in expired \/ e \in Running BY <1>1, <2>3 DEF Unrestored
    <3>3. CASE e \in Running
      <4>1. e = f BY <3>3 DEF OneRunsAtATime, Running
      <4>. QED BY <1>1, <2>1, <3>1, <4>1
    <3>4. CASE e \in expired
      <4>1. active' = None /\ e # f BY <1>1, <2>1, <3>1, <3>4
      <4>. QED BY <1>1, <1>2, <1>6, <2>3, <4>1 DEF Unrestored
    <3>. QED BY <3>2, <3>3, <3>4
  <2>. QED BY <2>2, <2>3 DEF RunningIsActive
<1>. QED
  BY <1>1, <1>2, <1>3, <1>5, <1>7 DEF Inserting, Recovering, ManualIsRecovered, DueIsExpired,
     OneRunsAtATime

LEMMA ShowInv ==
    ASSUME ExerciseInv, NEW c \in Calls, Show(c)
    PROVE  ExerciseInv'
<1>. USE DEF ExerciseInv
<1>1. /\ active' = Current /\ timers' = TimersAfterCurrent /\ Goto(c, "done")
      /\ c \in Gets \cup Boots /\ UNCHANGED <<row, expired, enabled, manual, auto, early, forgotten>>
  BY DEF Show
<1>2. /\ call' \in [Calls -> CallRecords]
      /\ call'[c].at = "done" /\ call'[c].rows = call[c].rows
      /\ call'[c].due = call[c].due /\ call'[c].of = call[c].of
      /\ \A d \in Calls : d # c => call'[d] = call[d]
  BY <1>1, GotoCall DEF Steps
<1>3. TypeOK' BY <1>1, <1>2, CurrentOf, Typed DEF TypeOK
<1>4. InsertingIsActive' BY <1>1, <1>2, CurrentOf DEF InsertingIsActive
<1>5. Running' = Running /\ \A f \in Running : active = f => active' = f
  BY <1>1, CurrentOf DEF Running
<1>6. RunningIsActive'
  <2>1. \A f \in Running : Unrestored(f) => Unrestored(f)'
    BY <1>1, <1>2, <1>5, CurrentOf DEF Unrestored
  <2>. QED BY <1>1, <1>5, <2>1 DEF RunningIsActive
<1>. QED
  BY <1>1, <1>2, <1>3, <1>4, <1>6 DEF Inserting, Recovering, ManualIsRecovered, DueIsExpired,
     OneRunsAtATime

LEMMA StartInv ==
    ASSUME ExerciseInv, NEW e \in Starts, Start(e)
    PROVE  ExerciseInv'
<1>. USE DEF ExerciseInv
<1>0. call[e].at = "sync" /\ call[e].rows = {} /\ row[e] = "absent"
      /\ UNCHANGED <<row, expired, enabled, manual, auto, early, forgotten>>
  BY DEF Start, Synced, Inserting
<1>1. CASE active # None /\ Goto(e, "done") /\ UNCHANGED <<active, timers>>
  <2>1. /\ call' \in [Calls -> CallRecords]
        /\ call'[e].at = "done" /\ call'[e].rows = call[e].rows
        /\ call'[e].due = call[e].due /\ call'[e].of = call[e].of
        /\ \A d \in Calls : d # e => call'[d] = call[d]
    BY <1>1, GotoCall DEF Steps
  <2>2. TypeOK' BY <1>0, <1>1, <2>1, Typed DEF TypeOK
  <2>3. RunningIsActive' BY <1>0, <1>1 DEF RunningIsActive, Unrestored, Running
  <2>. QED
    BY <1>0, <1>1, <2>1, <2>2, <2>3 DEF Inserting, InsertingIsActive, Recovering,
       ManualIsRecovered, DueIsExpired, OneRunsAtATime
<1>2. CASE active = None /\ active' = e /\ timers' = timers \cup {<<"signal", e>>} /\ Goto(e, "insert")
  <2>1. /\ call' \in [Calls -> CallRecords]
        /\ call'[e].at = "insert" /\ call'[e].rows = call[e].rows
        /\ call'[e].due = call[e].due /\ call'[e].of = call[e].of
        /\ \A d \in Calls : d # e => call'[d] = call[d]
    BY <1>2, GotoCall DEF Steps
  <2>2. TypeOK' BY <1>0, <1>2, <2>1, Typed DEF TypeOK
  <2>3. early = {} => Running = {}
    BY <1>0, <1>2 DEF RunningIsActive, Unrestored, Running
  <2>4. RunningIsActive' BY <1>0, <2>3 DEF RunningIsActive, Running
  <2>5. Inserting' BY <1>0, <2>1 DEF Inserting
  <2>6. InsertingIsActive' BY <1>0, <1>2, <2>1 DEF InsertingIsActive
  <2>. QED
    BY <1>0, <1>2, <2>1, <2>2, <2>4, <2>5, <2>6 DEF Recovering,
       ManualIsRecovered, DueIsExpired, OneRunsAtATime
<1>. QED BY <1>1, <1>2 DEF Start

LEMMA StartInsertInv ==
    ASSUME ExerciseInv, NEW e \in Starts, StartInsert(e)
    PROVE  ExerciseInv'
<1>. USE DEF ExerciseInv
<1>1. /\ call[e].at = "insert" /\ row[e] = "absent" /\ Goto(e, "done")
      /\ row' = [row EXCEPT ![e] = "active"] /\ timers' = timers \cup {<<"row", e>>}
      /\ UNCHANGED <<active, expired, enabled, manual, auto, early, forgotten>>
  BY DEF StartInsert, Inserting
<1>2. /\ call' \in [Calls -> CallRecords]
      /\ call'[e].at = "done" /\ call'[e].rows = call[e].rows
      /\ call'[e].due = call[e].due /\ call'[e].of = call[e].of
      /\ \A d \in Calls : d # e => call'[d] = call[d]
  BY <1>1, GotoCall DEF Steps
<1>3. /\ row' \in [Starts -> {"absent", "active", "recovered"}] /\ row'[e] = "active"
      /\ \A f \in Starts : f # e => row'[f] = row[f]
  BY <1>1 DEF TypeOK
<1>4. TypeOK'
  <2>1. timers' \subseteq {"signal", "row"} \X Starts BY <1>1 DEF TypeOK
  <2>. QED BY <1>1, <1>2, <1>3, <2>1, Typed DEF TypeOK
<1>5. Inserting' BY <1>2, <1>3 DEF Inserting
<1>6. InsertingIsActive' BY <1>1, <1>2 DEF InsertingIsActive
<1>7. Recovering' BY <1>1, <1>2, <1>3 DEF Recovering
<1>8. ManualIsRecovered' BY <1>1, <1>3 DEF ManualIsRecovered, TypeOK
<1>9. DueIsExpired' BY <1>1, <1>2 DEF DueIsExpired
<1>10. ASSUME early = {} PROVE \A f \in Running : active = f /\ f # e
  BY <1>1, <1>10 DEF RunningIsActive, Unrestored, Running
<1>11. Running' \subseteq Running \cup {e} /\ (e \in Running' => e \notin expired)
  BY <1>1, <1>3 DEF Running
<1>12. ASSUME early = {}, e \notin expired PROVE active = e /\ Running = {}
  BY <1>1, <1>10, <1>12 DEF InsertingIsActive
<1>13. RunningIsActive' BY <1>1, <1>10, <1>11, <1>12 DEF RunningIsActive
<1>14. OneRunsAtATime'
  <2>1. \A f \in Starts \ expired : row'[f] = "active" <=> f \in Running' BY <1>1 DEF Running
  <2>. QED BY <1>1, <1>10, <1>11, <1>12, <2>1 DEF OneRunsAtATime
<1>. QED BY <1>4, <1>5, <1>6, <1>7, <1>8, <1>9, <1>13, <1>14

LEMMA StartFailInv ==
    ASSUME ExerciseInv, NEW e \in Starts, StartFail(e)
    PROVE  ExerciseInv'
<1>. USE DEF ExerciseInv
<1>1. /\ call[e].at = "insert" /\ row[e] = "absent" /\ Goto(e, "done")
      /\ active' = (IF active = e THEN None ELSE active)
      /\ UNCHANGED <<row, expired, enabled, manual, auto, early, forgotten>>
  BY DEF StartFail, Clear, Inserting
<1>2. /\ call' \in [Calls -> CallRecords]
      /\ call'[e].at = "done" /\ call'[e].rows = call[e].rows
      /\ call'[e].due = call[e].due /\ call'[e].of = call[e].of
      /\ \A d \in Calls : d # e => call'[d] = call[d]
  BY <1>1, GotoCall DEF Steps
<1>3. TypeOK'
  <2>1. timers' \subseteq {"signal", "row"} \X Starts BY DEF StartFail, Clear, TypeOK
  <2>. QED BY <1>1, <1>2, <2>1, Typed DEF TypeOK
<1>4. InsertingIsActive' BY <1>1, <1>2 DEF InsertingIsActive
<1>5. ASSUME early = {} PROVE \A f \in Running : active' = f
  BY <1>1, <1>5 DEF RunningIsActive, Unrestored, Running
<1>6. RunningIsActive' BY <1>1, <1>5 DEF RunningIsActive, Running
<1>. QED
  BY <1>1, <1>2, <1>3, <1>4, <1>6 DEF Inserting, Recovering, ManualIsRecovered, DueIsExpired,
     OneRunsAtATime

LEMMA RecoverInv ==
    ASSUME ExerciseInv, NEW c \in Calls, Recover(c)
    PROVE  ExerciseInv'
<1>. USE DEF ExerciseInv
<1>. DEFINE step == IF Current = None THEN "done" ELSE "update"
<1>1. /\ active' = Current /\ timers' = TimersAfterCurrent /\ c \in Recovers
      /\ call' = [call EXCEPT ![c].at = step, ![c].of = Current]
      /\ UNCHANGED <<row, expired, enabled, manual, auto, early, forgotten>>
  BY DEF Recover
<1>2. /\ call' \in [Calls -> CallRecords]
      /\ call'[c].at = step /\ call'[c].rows = call[c].rows
      /\ call'[c].due = call[c].due /\ call'[c].of = Current
      /\ \A d \in Calls : d # c => call'[d] = call[d]
  <2>1. call \in [Calls -> CallRecords] /\ call[c] \in CallRecords BY DEF TypeOK, CallRecords
  <2>2. step \in Steps /\ Current \in Starts \cup {None} BY CurrentOf DEF Steps
  <2>. HIDE DEF step
  <2>3. [call[c] EXCEPT !.at = step, !.of = Current] \in CallRecords
    BY <2>1, <2>2 DEF CallRecords
  <2>. QED BY <1>1, <2>1, <2>3 DEF CallRecords
<1>3. TypeOK' BY <1>1, <1>2, CurrentOf, Typed DEF TypeOK
<1>4. InsertingIsActive' BY <1>1, <1>2, CurrentOf DEF InsertingIsActive
<1>5. Recovering' BY <1>1, <1>2, CurrentOf DEF Recovering
<1>6. Running' = Running /\ \A f \in Running : active = f => active' = f
  BY <1>1, CurrentOf DEF Running
<1>7. RunningIsActive'
  <2>1. \A f \in Running : Unrestored(f) => Unrestored(f)'
    BY <1>1, <1>2, <1>6, CurrentOf DEF Unrestored
  <2>. QED BY <1>1, <1>6, <2>1 DEF RunningIsActive
<1>. QED
  BY <1>1, <1>2, <1>3, <1>4, <1>5, <1>7 DEF Inserting, ManualIsRecovered, DueIsExpired,
     OneRunsAtATime

LEMMA RecoverUpdateInv ==
    ASSUME ExerciseInv, NEW c \in Calls, RecoverUpdate(c)
    PROVE  ExerciseInv'
<1>. USE DEF ExerciseInv
<1>. DEFINE e == call[c].of
<1>1. /\ call[c].at = "update" /\ e \in Starts /\ Goto(c, "clear")
      /\ row' = [row EXCEPT ![e] = IF @ = "absent" THEN "absent" ELSE "recovered"]
      /\ early' = IF row[e] = "absent" THEN early \cup {e} ELSE early
      /\ manual' = manual \cup {e}
      /\ UNCHANGED <<active, expired, timers, enabled, auto, forgotten>>
  BY DEF RecoverUpdate, Recovering
<1>2. /\ call' \in [Calls -> CallRecords]
      /\ call'[c].at = "clear" /\ call'[c].rows = call[c].rows
      /\ call'[c].due = call[c].due /\ call'[c].of = e
      /\ \A d \in Calls : d # c => call'[d] = call[d]
  BY <1>1, GotoCall DEF Steps
<1>3. /\ row' \in [Starts -> {"absent", "active", "recovered"}]
      /\ row'[e] = (IF row[e] = "absent" THEN "absent" ELSE "recovered")
      /\ \A f \in Starts : f # e => row'[f] = row[f]
  BY <1>1 DEF TypeOK
<1>4. TypeOK' BY <1>1, <1>2, <1>3, Typed DEF TypeOK
<1>5. early \subseteq early' /\ (row[e] # "absent" => early' = early /\ row'[e] = "recovered")
      /\ (early' = {} => row[e] # "absent")
  BY <1>1, <1>3
<1>6. Inserting' BY <1>2, <1>3 DEF Inserting
<1>7. InsertingIsActive' BY <1>1, <1>2, <1>5 DEF InsertingIsActive
<1>8. Recovering' BY <1>1, <1>2, <1>3, <1>5 DEF Recovering
<1>9. ManualIsRecovered' BY <1>1, <1>3 DEF ManualIsRecovered, TypeOK
<1>10. DueIsExpired' BY <1>1, <1>2 DEF DueIsExpired
<1>11. Running' \subseteq Running BY <1>1, <1>3 DEF Running
<1>12. RunningIsActive'
  <2>1. \A f \in Running : ~Unrestored(f) BY <1>1 DEF Unrestored
  <2>. QED BY <1>1, <1>5, <1>11, <2>1 DEF RunningIsActive
<1>13. OneRunsAtATime' BY <1>1, <1>3, <1>5 DEF OneRunsAtATime
<1>. QED BY <1>4, <1>6, <1>7, <1>8, <1>9, <1>10, <1>12, <1>13

LEMMA RecoverClearInv ==
    ASSUME ExerciseInv, NEW c \in Calls, RecoverClear(c)
    PROVE  ExerciseInv'
<1>. USE DEF ExerciseInv
<1>. DEFINE e == call[c].of
<1>1. /\ call[c].at = "clear" /\ e \in Starts /\ (early = {} => row[e] = "recovered")
      /\ Goto(c, "done") /\ active' = (IF active = e THEN None ELSE active)
      /\ UNCHANGED <<row, expired, enabled, manual, auto, early, forgotten>>
  BY DEF RecoverClear, Clear, Recovering
<1>2. /\ call' \in [Calls -> CallRecords]
      /\ call'[c].at = "done" /\ call'[c].rows = call[c].rows
      /\ call'[c].due = call[c].due /\ call'[c].of = call[c].of
      /\ \A d \in Calls : d # c => call'[d] = call[d]
  BY <1>1, GotoCall DEF Steps
<1>3. TypeOK'
  <2>1. timers' \subseteq {"signal", "row"} \X Starts BY DEF RecoverClear, Clear, TypeOK
  <2>. QED BY <1>1, <1>2, <2>1, Typed DEF TypeOK
<1>4. InsertingIsActive' BY <1>1, <1>2 DEF InsertingIsActive, Inserting
<1>5. Running' = Running /\ (early = {} => e \notin Running) BY <1>1 DEF Running
<1>6. RunningIsActive'
  <2>1. \A f \in Running : Unrestored(f) => Unrestored(f)'
    BY <1>1, <1>2, <1>5 DEF Unrestored
  <2>. QED BY <1>1, <1>5, <2>1 DEF RunningIsActive
<1>. QED
  BY <1>1, <1>2, <1>3, <1>4, <1>6 DEF Inserting, Recovering, ManualIsRecovered, DueIsExpired,
     OneRunsAtATime

LEMMA RestartInv ==
    ASSUME ExerciseInv, NEW b \in Calls, Restart(b)
    PROVE  ExerciseInv'
<1>. USE DEF ExerciseInv
<1>1. /\ b \in Boots /\ active' = None /\ timers' = {}
      /\ call' = [c \in Calls |->
                  IF c = b THEN [call[c] EXCEPT !.at = IF enabled' THEN "read" ELSE "done"]
                  ELSE IF call[c].at = "idle" THEN call[c] ELSE [call[c] EXCEPT !.at = "done"]]
      /\ UNCHANGED <<row, expired, manual, auto, early>>
  BY DEF Restart
<1>2. ASSUME NEW c \in Calls
      PROVE  /\ call'[c] \in CallRecords /\ call'[c].at \in {"read", "idle", "done"}
             /\ call'[c].at = "idle" => call[c].at = "idle"
             /\ call'[c].due = call[c].due
  <2>1. call[c] \in CallRecords BY DEF TypeOK, CallRecords
  <2>2. \/ call'[c] = [call[c] EXCEPT !.at = "read"] \/ call'[c] = [call[c] EXCEPT !.at = "done"]
        \/ call[c].at = "idle" /\ call'[c] = call[c]
    BY <1>1
  <2>. QED BY <2>1, <2>2 DEF CallRecords, Steps
<1>3. call' \in [Calls -> CallRecords] BY <1>1, <1>2
<1>4. TypeOK'
  <2>1. enabled' \in BOOLEAN /\ forgotten' \subseteq Starts BY DEF Restart, TypeOK, ActiveRows
  <2>. QED BY <1>1, <1>3, <2>1, Typed DEF TypeOK
<1>5. RunningIsActive' BY <1>1, <1>2 DEF RunningIsActive, Unrestored
<1>. QED
  BY <1>1, <1>2, <1>4, <1>5 DEF Inserting, InsertingIsActive, Recovering, ManualIsRecovered,
     DueIsExpired, OneRunsAtATime

LEMMA NextInv == ASSUME ExerciseInv, [Next]_vars PROVE ExerciseInv'
<1>1. ASSUME NEW e \in Starts, SignalTimer(e) PROVE ExerciseInv'
  BY <1>1, SignalInv DEF SignalTimer, ExerciseInv, TypeOK
<1>2. ASSUME NEW e \in Starts, RowTimer(e) PROVE ExerciseInv'
  <2>1. /\ timers' \subseteq {"signal", "row"} \X Starts /\ forgotten' \subseteq Starts
        /\ enabled' \in BOOLEAN /\ call' = call /\ call \in [Calls -> CallRecords]
    BY <1>2 DEF RowTimer, ExerciseInv, TypeOK, CallRecords
  <2>2. CASE PersistRecovery(e) BY <1>2, <2>1, <2>2, PersistInv DEF RowTimer
  <2>3. CASE UNCHANGED <<row, auto>>
    BY <1>2, <2>1, <2>3, SignalInv DEF RowTimer, ExerciseInv, TypeOK
  <2>. QED BY <1>2, <2>2, <2>3 DEF RowTimer
<1>3. ASSUME NEW c \in Calls, Step(c) PROVE ExerciseInv'
  BY <1>3, SyncDueInv, SyncRestoreInv, ShowInv, RecoverInv, RecoverUpdateInv, RecoverClearInv,
     StartInv, StartInsertInv, SyncReadInv, FailsInv DEF Step
<1>4. CASE UNCHANGED vars
  BY <1>4 DEF vars, ExerciseInv, TypeOK, Inserting, InsertingIsActive, Recovering,
     ManualIsRecovered, DueIsExpired, RunningIsActive, Running, Unrestored, OneRunsAtATime
<1>. QED BY <1>1, <1>2, <1>3, <1>4, ExpireInv, StartFailInv, SyncReadInv, RestartInv DEF Next

LEMMA InvariantHolds == Spec => []ExerciseInv
BY InitInv, NextInv, PTL DEF Spec

-----------------------------------------------------------------------------
\* The variables keep their types.
THEOREM TypeCorrect == Spec => []TypeOK
BY InvariantHolds, PTL DEF ExerciseInv

\* The database says of one exercise only that it runs, for any number of
\* requests, expirations, refused statements and restarts, unless one is recovered
\* between its start and its INSERT.
THEOREM OneExercise == Spec => []OneRunsAtATime
BY InvariantHolds, PTL DEF ExerciseInv

\* What an administrator recovered is never logged as recovered by the system.
THEOREM ManualStaysManual == Spec => ManualIsNotAutomatic
<1>. DEFINE Kept(e) == e \in manual /\ e \notin auto /\ e \notin early => e \notin auto'
<1>1. ASSUME ExerciseInv, [Next]_vars PROVE [\A e \in Starts : Kept(e)]_vars
  <2>1. ASSUME Next, NEW e \in Starts PROVE Kept(e)
    <3>1. CASE auto' = auto BY <3>1
    <3>2. ASSUME NEW f \in Starts, PersistRecovery(f) PROVE Kept(e)
      BY <1>1, <3>2 DEF PersistRecovery, ExerciseInv, ManualIsRecovered
    <3>. QED
      BY <2>1, <3>1, <3>2 DEF Next, Step, Expire, SignalTimer, RowTimer, StartFail, SyncRead,
         SyncDue, SyncRestore, SyncFails, Show, Recover, RecoverUpdate, RecoverFails, RecoverClear,
         Start, StartInsert, Restart
  <2>. QED BY <1>1, <2>1
<1>. QED BY <1>1, InvariantHolds, PTL DEF Spec, ManualIsNotAutomatic
=============================================================================
