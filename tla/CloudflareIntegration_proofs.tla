-------------------- MODULE CloudflareIntegration_proofs --------------------
(***************************************************************************)
(* The safety of CloudflareIntegration for every set of setups, removals   *)
(* and scans, whatever Cloudflare refuses or leaves unanswered, whoever    *)
(* dies and however the calls overlap.  That the Worker knows its secret   *)
(* and the mail has its route, the last two theorems, is said of as long   *)
(* as no two setups and no two removals were being answered at once        *)
(* (crossed), beside tasks and scans; of calls that cross it is not true.  *)
(***************************************************************************)
EXTENDS CloudflareIntegration, TLAPS

USE CallersAssumption

-----------------------------------------------------------------------------
(* Types.                                                                  *)

LEMMA InitType == Init => IntegrationTypeOK
<1>. SUFFICES ASSUME Init PROVE IntegrationTypeOK OBVIOUS
<1>1. row \in [Setups -> RowRecords] BY DEF Init, RowRecords, Statuses, Secrets
<1>2. setup \in [Setups -> SetupRecords]
  BY DEF Init, SetupRecords, SetupSteps, Statuses, Secrets
<1>3. remover \in [Removers -> RemoverRecords]
  BY DEF Init, RemoverRecords, RemoverSteps, Secrets
<1>4. scan \in [Scans -> [at : {"idle", "activate", "done"}, of : Secrets]]
  BY DEF Init, Secrets
<1>. QED BY <1>1, <1>2, <1>3, <1>4 DEF Init, IntegrationTypeOK, Secrets, Rules

\* Moving a setup to another step keeps the type of all of them.
LEMMA GotoType ==
    ASSUME IntegrationTypeOK, NEW s \in Setups, NEW step \in SetupSteps, Goto(s, step)
    PROVE  setup' \in [Setups -> SetupRecords]
BY DEF IntegrationTypeOK, SetupRecords, Goto

LEMMA UpdateType ==
    ASSUME IntegrationTypeOK, NEW r, NEW new, Update(r, new),
           r \in Setups => new \in RowRecords
    PROVE  row' \in [Setups -> RowRecords]
BY DEF IntegrationTypeOK, Update, Rows

LEMMA RowType ==
    ASSUME IntegrationTypeOK, NEW r \in Setups
    PROVE  /\ row[r] \in RowRecords
           /\ \A st \in Statuses : [row[r] EXCEPT !.status = st] \in RowRecords
           /\ \A h \in Secrets : [row[r] EXCEPT !.hash = h] \in RowRecords
<1>1. row[r] \in RowRecords BY DEF IntegrationTypeOK
<1>. QED BY <1>1 DEF RowRecords

LEMMA SetupType ==
    ASSUME IntegrationTypeOK, NEW s \in Setups, SetupLook(s) \/ Setup(s) \/ SetupCrash(s)
    PROVE  IntegrationTypeOK'
<1>. USE GotoType DEF SetupSteps, others, histories, Grants, Refuses, Loses, Raises, Dies
<1>. DEFINE RowsTyped == row' \in [Setups -> RowRecords]
            SetupsTyped == setup' \in [Setups -> SetupRecords]
<1>1. CASE SetupLook(s)
  <2>1. SetupsTyped
    <3>1. CASE setup' = [setup EXCEPT ![s].at = "token"]
      BY <3>1, GotoType DEF Goto
    <3>2. ASSUME NEW r \in Rows,
                 setup' = [setup EXCEPT ![s] = [@ EXCEPT !.at = "token", !.of = r,
                             !.status = row[r].status, !.ids = row[r].ids]]
          PROVE  SetupsTyped
      <4>1. r \in Secrets /\ row[r].status \in Statuses /\ row[r].ids \in BOOLEAN
        BY DEF Rows, Secrets, IntegrationTypeOK, RowRecords
      <4>2. setup \in [Setups -> SetupRecords] /\ setup[s] \in SetupRecords
        BY DEF IntegrationTypeOK
      <4>3. [setup[s] EXCEPT !.at = "token", !.of = r, !.status = row[r].status,
                             !.ids = row[r].ids] \in SetupRecords
        BY <4>1, <4>2 DEF SetupRecords
      <4>. QED BY <3>2, <4>2, <4>3
    <3>. QED BY <1>1, <3>1, <3>2 DEF SetupLook
  <2>. QED BY <1>1, <2>1 DEF SetupLook, IntegrationTypeOK
<1>2. CASE SetupToken(s) BY <1>2 DEF SetupToken, IntegrationTypeOK
<1>3. CASE SetupForget(s)
  <2>1. SetupsTyped
    <3>1. Goto(s, "insert") \/ Goto(s, "done") \/ Goto(s, "resync")
      BY <1>3 DEF SetupForget
    <3>. QED BY <3>1
  <2>2. RowsTyped
    <3>1. CASE UNCHANGED row BY <3>1 DEF IntegrationTypeOK
    <3>2. CASE Update(setup[s].of, [row[setup[s].of] EXCEPT !.status = "gone"])
      BY <3>2, UpdateType, RowType DEF Statuses
    <3>. QED BY <1>3, <3>1, <3>2 DEF SetupForget
  <2>. QED BY <1>3, <2>1, <2>2 DEF SetupForget, IntegrationTypeOK
<1>4. CASE ResyncDns(s)
  <2>1. Goto(s, "deploy") \/ Goto(s, "store") \/ Goto(s, "done")
    BY <1>4 DEF ResyncDns
  <2>2. SetupsTyped BY <2>1
  <2>. QED BY <1>4, <2>2 DEF ResyncDns, IntegrationTypeOK
<1>5. CASE ResyncDeploy(s) BY <1>5 DEF ResyncDeploy, IntegrationTypeOK, Secrets
<1>6. CASE ResyncRotate(s)
  <2>1. Update(setup[s].of, [row[setup[s].of] EXCEPT !.hash = s])
    BY <1>6 DEF ResyncRotate
  <2>2. RowsTyped BY <2>1, UpdateType, RowType DEF Secrets
  <2>. QED BY <1>6, <2>2 DEF ResyncRotate, IntegrationTypeOK
<1>7. CASE ResyncStore(s) BY <1>7 DEF ResyncStore, IntegrationTypeOK
<1>8. CASE StartInsert(s)
  <2>1. RowsTyped BY <1>8, RowType DEF StartInsert, IntegrationTypeOK, Statuses
  <2>. QED BY <1>8, <2>1 DEF StartInsert, IntegrationTypeOK
<1>9. CASE StartToken(s) BY <1>9 DEF StartToken, IntegrationTypeOK
<1>10. CASE StartDns(s) BY <1>10 DEF StartDns, IntegrationTypeOK
<1>11. CASE ProvisionGateway(s) BY <1>11 DEF ProvisionGateway, IntegrationTypeOK
<1>12. CASE ProvisionScript(s) BY <1>12 DEF ProvisionScript, IntegrationTypeOK, Secrets
<1>13. CASE ProvisionRules(s)
  <2>1. SetupsTyped
    <3>1. CASE setup' = [setup EXCEPT ![s].at = "clear", ![s].found = rules]
      <4>1. setup \in [Setups -> SetupRecords] /\ rules \in SUBSET Rules
        BY DEF IntegrationTypeOK
      <4>2. [setup[s] EXCEPT !.at = "clear", !.found = rules] \in SetupRecords
        BY <4>1 DEF SetupRecords
      <4>. QED BY <3>1, <4>1, <4>2
    <3>. QED BY <1>13, <3>1 DEF ProvisionRules
  <2>. QED BY <1>13, <2>1 DEF ProvisionRules, IntegrationTypeOK
<1>14. CASE ProvisionClear(s)
  <2>1. SetupsTyped
    <3>1. ASSUME NEW q, setup' = [setup EXCEPT ![s].found = @ \ {q}] PROVE SetupsTyped
      <4>1. setup \in [Setups -> SetupRecords] /\ setup[s] \in SetupRecords
        BY DEF IntegrationTypeOK
      <4>2. [setup[s] EXCEPT !.found = @ \ {q}] \in SetupRecords
        BY <4>1 DEF SetupRecords
      <4>. QED BY <3>1, <4>1, <4>2
    <3>. QED BY <1>14, <3>1 DEF ProvisionClear
  <2>2. rules' \subseteq rules BY <1>14 DEF ProvisionClear
  <2>. QED BY <1>14, <2>1, <2>2 DEF ProvisionClear, IntegrationTypeOK
<1>15. CASE ProvisionRoute(s) BY <1>15 DEF ProvisionRoute, IntegrationTypeOK, Rules
<1>16. CASE ProvisionRecord(s)
  <2>1. RowsTyped BY <1>16, UpdateType DEF ProvisionRecord, Secrets, Statuses, Live, RowRecords
  <2>. QED BY <1>16, <2>1 DEF ProvisionRecord, IntegrationTypeOK
<1>17. CASE ProvisionAlert(s) BY <1>17 DEF ProvisionAlert, IntegrationTypeOK
<1>18. CASE SetupFail(s)
  <2>1. [row[s] EXCEPT !.status = "error"] \in RowRecords BY RowType DEF Statuses
  <2>2. RowsTyped BY <1>18, <2>1, UpdateType DEF SetupFail
  <2>. QED BY <1>18, <2>2 DEF SetupFail, IntegrationTypeOK
<1>19. CASE SetupCrash(s) BY <1>19 DEF SetupCrash, IntegrationTypeOK
<1>. QED
  BY <1>1, <1>2, <1>3, <1>4, <1>5, <1>6, <1>7, <1>8, <1>9, <1>10, <1>11, <1>12, <1>13,
     <1>14, <1>15, <1>16, <1>17, <1>18, <1>19 DEF Setup

\* The fields a removal writes keep its record typed.
LEMMA RemoverGotoType ==
    ASSUME IntegrationTypeOK, NEW t \in Removers, NEW step \in RemoverSteps,
           RemoverGoto(t, step)
    PROVE  remover' \in [Removers -> RemoverRecords]
BY DEF IntegrationTypeOK, RemoverRecords, RemoverGoto

LEMMA RemoverRecord ==
    ASSUME IntegrationTypeOK, NEW t \in Removers, NEW step \in RemoverSteps
    PROVE  /\ \A b \in BOOLEAN :
                /\ [remover EXCEPT ![t].at = step, ![t].local = b] \in [Removers -> RemoverRecords]
                /\ [remover EXCEPT ![t].at = step, ![t].keep = b] \in [Removers -> RemoverRecords]
           /\ \A r \in Setups :
                /\ [remover EXCEPT ![t].at = step, ![t].of = r] \in [Removers -> RemoverRecords]
                /\ [remover EXCEPT ![t].at = step, ![t].of = r, ![t].todo = @ \ {r}]
                     \in [Removers -> RemoverRecords]
           /\ \A T \in SUBSET Setups :
                [remover EXCEPT ![t].at = step, ![t].erases = TRUE, ![t].todo = T]
                     \in [Removers -> RemoverRecords]
<1>1. remover \in [Removers -> RemoverRecords] /\ remover[t] \in RemoverRecords
  BY DEF IntegrationTypeOK
<1>2. ASSUME NEW b \in BOOLEAN
      PROVE  /\ [remover[t] EXCEPT !.at = step, !.local = b] \in RemoverRecords
             /\ [remover[t] EXCEPT !.at = step, !.keep = b] \in RemoverRecords
  BY <1>1 DEF RemoverRecords
<1>3. ASSUME NEW r \in Setups
      PROVE  /\ [remover[t] EXCEPT !.at = step, !.of = r] \in RemoverRecords
             /\ [remover[t] EXCEPT !.at = step, !.of = r, !.todo = @ \ {r}] \in RemoverRecords
  BY <1>1 DEF RemoverRecords, Secrets
<1>4. ASSUME NEW T \in SUBSET Setups
      PROVE  [remover[t] EXCEPT !.at = step, !.erases = TRUE, !.todo = T] \in RemoverRecords
  BY <1>1 DEF RemoverRecords
<1>. QED BY <1>1, <1>2, <1>3, <1>4

LEMMA DeleteRowsType ==
    ASSUME IntegrationTypeOK, DeleteRows
    PROVE  /\ row' \in [Setups -> RowRecords]
           /\ orphans' \subseteq Setups
BY RowType DEF DeleteRows, IntegrationTypeOK, Rows, Statuses

LEMMA RemoverType ==
    ASSUME IntegrationTypeOK, NEW t \in Removers,
           RemoverBegin(t) \/ Remover(t) \/ DropRows(t) \/ RemoverCrash(t)
    PROVE  IntegrationTypeOK'
<1>. USE RemoverGotoType
     DEF RemoverSteps, outside, histories, RemoverIdle, Grants, Refuses, Loses, Dies
<1>. DEFINE RemoversTyped == remover' \in [Removers -> RemoverRecords]
<1>0. Rows \subseteq Setups
  BY DEF Rows
<1>1. CASE DropToken(t) BY <1>1 DEF DropToken, IntegrationTypeOK
<1>2. CASE TeardownBegin(t) /\ UNCHANGED <<row, config, worker, rules, setup, scan, trouble, reached, orphans, unsure>>
  <2>1. ASSUME NEW r \in Rows, remover' = [remover EXCEPT ![t].at = "look", ![t].of = r]
        PROVE  RemoversTyped
    <3>1. r \in Setups BY <1>0
    <3>. QED BY <2>1, <3>1, RemoverRecord
  <2>2. RemoversTyped BY <1>2, <2>1 DEF TeardownBegin
  <2>3. crossed' \in BOOLEAN BY <1>2 DEF TeardownBegin
  <2>. QED BY <1>2, <2>2, <2>3 DEF IntegrationTypeOK
<1>3. CASE EraseBegin(t) /\ UNCHANGED <<row, config, worker, rules, setup, scan, trouble, reached, orphans, unsure>>
  <2>1. [remover EXCEPT ![t].at = "choose", ![t].erases = TRUE, ![t].todo = Rows]
          \in [Removers -> RemoverRecords]
    BY <1>0, RemoverRecord
  <2>2. RemoversTyped BY <1>3, <2>1 DEF EraseBegin
  <2>3. crossed' \in BOOLEAN BY <1>3 DEF EraseBegin
  <2>. QED BY <1>3, <2>2, <2>3 DEF IntegrationTypeOK
<1>4. CASE RemoverReads(t)
  <2>1. ASSUME EraseChoose(t) PROVE RemoversTyped
    <3>1. remover[t].todo \subseteq Setups BY DEF IntegrationTypeOK, RemoverRecords
    <3>2. PICK r \in remover[t].todo :
            remover' = [remover EXCEPT ![t].at = "look", ![t].of = r, ![t].todo = @ \ {r}]
      BY <2>1 DEF EraseChoose
    <3>3. r \in Setups BY <3>1
    <3>. QED BY <3>2, <3>3, RemoverRecord
  <2>2. ASSUME TeardownLook(t) PROVE RemoversTyped
    <3>. DEFINE r == remover[t].of
                step == IF row[r].ids THEN "share" ELSE "delete"
                local == row[r].status = "error" /\ ~row[r].ids
    <3>1. step \in RemoverSteps /\ local \in BOOLEAN
      OBVIOUS
    <3>2. RemoverGoto(t, "refused") \/ remover' = [remover EXCEPT ![t].at = step, ![t].local = local]
      BY <2>2 DEF TeardownLook
    <3>. HIDE DEF step, local
    <3>3. [remover EXCEPT ![t].at = step, ![t].local = local] \in [Removers -> RemoverRecords]
      BY <3>1, RemoverRecord
    <3>. QED BY <3>2, <3>3
  <2>3. ASSUME TeardownShare(t) PROVE RemoversTyped
    <3>1. PICK keep \in BOOLEAN :
            remover' = [remover EXCEPT ![t].at = "unroute", ![t].keep = keep]
      BY <2>3 DEF TeardownShare
    <3>. QED BY <3>1, RemoverRecord
  <2>4. RemoversTyped BY <1>4, <2>1, <2>2, <2>3 DEF RemoverReads
  <2>. QED BY <1>4, <2>4 DEF RemoverReads, IntegrationTypeOK
<1>5. CASE TeardownUnroute(t) BY <1>5 DEF TeardownUnroute, IntegrationTypeOK
<1>6. CASE TeardownUnscript(t) BY <1>6 DEF TeardownUnscript, IntegrationTypeOK, Secrets
<1>7. CASE TeardownRestore(t) BY <1>7 DEF TeardownRestore, IntegrationTypeOK
<1>8. CASE TeardownForward(t) BY <1>8 DEF TeardownForward, IntegrationTypeOK, Rules
<1>9. CASE TeardownDelete(t)
  <2>1. Update(remover[t].of, [row[remover[t].of] EXCEPT !.status = "gone"])
    BY <1>9 DEF TeardownDelete
  <2>2. row' \in [Setups -> RowRecords] BY <2>1, UpdateType, RowType DEF Statuses
  <2>. QED BY <1>9, <2>2 DEF TeardownDelete, IntegrationTypeOK
<1>10. CASE TeardownRemain(t)
  BY <1>10 DEF TeardownRemain, Removed, IntegrationTypeOK
<1>11. CASE TeardownForget(t)
  BY <1>11 DEF TeardownForget, Removed, IntegrationTypeOK
<1>12. CASE EraseToken(t) BY <1>12 DEF EraseToken, IntegrationTypeOK
<1>13. CASE EraseRows(t)
  BY <1>13, DeleteRowsType DEF EraseRows, IntegrationTypeOK
<1>14. CASE DropRows(t)
  BY <1>14, DeleteRowsType DEF DropRows, IntegrationTypeOK
<1>15. CASE RemoverCrash(t) BY <1>15 DEF RemoverCrash, IntegrationTypeOK
<1>. QED
  BY <1>1, <1>2, <1>3, <1>4, <1>5, <1>6, <1>7, <1>8, <1>9, <1>10, <1>11, <1>12, <1>13,
     <1>14, <1>15 DEF Remover, RemoverBegin

LEMMA ScanType ==
    ASSUME IntegrationTypeOK, NEW x \in Scans, ScanLook(x) \/ ScanActivate(x)
    PROVE  IntegrationTypeOK'
<1>. DEFINE Records == [at : {"idle", "activate", "done"}, of : Secrets]
<1>. USE DEF histories
<1>1. CASE ScanLook(x)
  <2>1. \A r \in Rows : r \in Secrets BY DEF Rows, Secrets
  <2>2. scan' \in [Scans -> Records] BY <1>1, <2>1 DEF ScanLook, IntegrationTypeOK
  <2>. QED BY <1>1, <2>2 DEF ScanLook, IntegrationTypeOK
<1>2. CASE ScanActivate(x)
  <2>1. Update(scan[x].of, [row[scan[x].of] EXCEPT !.status = "active"])
    BY <1>2 DEF ScanActivate
  <2>2. row' \in [Setups -> RowRecords] BY <2>1, UpdateType, RowType DEF Statuses
  <2>3. scan' \in [Scans -> Records] BY <1>2 DEF ScanActivate, IntegrationTypeOK
  <2>. QED BY <1>2, <2>2, <2>3 DEF ScanActivate, IntegrationTypeOK
<1>. QED BY <1>1, <1>2

-----------------------------------------------------------------------------
(* How one step moves the row of a setup, and what each caller remembers.  *)

SameRow(s) == row'[s].status = row[s].status /\ row'[s].ids = row[s].ids
Inserted(s) ==
    /\ setup[s].at = "insert" /\ setup'[s].at = "keep"
    /\ row'[s].status = "provisioning" /\ row'[s].ids = row[s].ids
Deleted(s) ==
    /\ row[s].status \notin {"absent", "gone"} /\ row'[s].status = "gone"
    /\ row'[s].ids = row[s].ids
    /\ row[s].status = "provisioning" => s \in orphans' \/ ~SetupUnderWay(s)
Recorded(s) ==
    /\ row[s].status \notin {"absent", "gone"} /\ setup[s].at = "record"
    /\ row'[s].status \in Live /\ row'[s].ids
Failed(s) ==
    /\ row[s].status \notin {"absent", "gone"} /\ setup[s].at = "fail" /\ setup'[s].at = "done"
    /\ row'[s].status = "error" /\ row'[s].ids = row[s].ids
Activated(s) ==
    /\ row[s].status \notin {"absent", "gone"} /\ row'[s].status = "active"
    /\ row[s].ids /\ row'[s].ids
RowMove(s) ==
    SameRow(s) \/ Inserted(s) \/ Deleted(s) \/ Recorded(s) \/ Failed(s) \/ Activated(s)

Remembers(s) ==
    setup'[s].of = setup[s].of /\ setup'[s].status = setup[s].status /\ setup'[s].ids = setup[s].ids
SetupMove(s) ==
    /\ setup[s].at = "done" => setup'[s].at = "done"
    /\ setup'[s].at = "idle" => setup[s].at = "idle"
    /\ setup'[s].at = "token" => setup[s].at \in {"idle", "token"}
    /\ setup'[s].at = "forget" => setup[s].at \in {"token", "forget"}
    /\ setup'[s].at = "insert" => setup[s].at \in {"forget", "insert"}
    /\ \/ Remembers(s)
       \/ /\ setup[s].at = "idle" /\ setup'[s].of \in Rows /\ row' = row
          /\ setup'[s].status = row[setup'[s].of].status
          /\ setup'[s].ids = row[setup'[s].of].ids

Removing == {"share", "unroute", "unscript", "restore", "forward", "delete"}
RemoverMove(t) ==
    remover'[t].at \in Removing =>
        \/ remover[t].at \in Removing /\ remover'[t].of = remover[t].of
        \/ /\ remover'[t].of \in Rows /\ row[remover'[t].of].status # "provisioning"
           /\ row' = row

ScanMove(x) ==
    scan'[x].at = "activate" =>
        \/ scan[x].at = "activate" /\ scan'[x].of = scan[x].of
        \/ scan'[x].of \in Rows /\ row[scan'[x].of].status \in Live /\ row' = row

Moves ==
    /\ \A s \in Setups : RowMove(s) /\ SetupMove(s)
    /\ \A t \in Removers : RemoverMove(t)
    /\ \A x \in Scans : ScanMove(x)

LEMMA RowsKept == ASSUME row' = row PROVE \A s \in Setups : RowMove(s)
BY DEF RowMove, SameRow

LEMMA RemoversKept == ASSUME remover' = remover PROVE \A t \in Removers : RemoverMove(t)
BY DEF RemoverMove

LEMMA ScansKept == ASSUME scan' = scan PROVE \A x \in Scans : ScanMove(x)
BY DEF ScanMove

LEMMA SetupsKept == ASSUME setup' = setup PROVE \A s \in Setups : SetupMove(s)
BY DEF SetupMove, Remembers

\* A statement about one row keeps the others.
LEMMA UpdateOne ==
    ASSUME IntegrationTypeOK, NEW r, NEW new, Update(r, new)
    PROVE  \/ row' = row
           \/ /\ r \in Setups /\ row[r].status \notin {"absent", "gone"} /\ row'[r] = new
              /\ \A s \in Setups : s # r => row'[s] = row[s]
BY DEF IntegrationTypeOK, Update, Rows

\* A setup that only goes on to another step.
LEMMA GotoMoves ==
    ASSUME IntegrationTypeOK, NEW s \in Setups, NEW step,
           Goto(s, step), setup[s].at # "done" \/ step = "done", step # "idle",
           step = "token" => setup[s].at = "idle",
           step = "forget" => setup[s].at = "token",
           step = "insert" => setup[s].at = "forget"
    PROVE  /\ \A q \in Setups : SetupMove(q)
           /\ setup'[s].at = step
BY DEF IntegrationTypeOK, SetupRecords, Goto, SetupMove, Remembers

LEMMA SetupMoves ==
    ASSUME IntegrationInv, NEW s \in Setups, SetupLook(s) \/ Setup(s) \/ SetupCrash(s)
    PROVE  Moves
<1>. USE RowsKept, RemoversKept, ScansKept, GotoMoves DEF Moves, others, Raises, IntegrationInv
<1>. DEFINE RowsMove == \A q \in Setups : RowMove(q)
            SetupsMove == \A q \in Setups : SetupMove(q)
<1>1. CASE SetupLook(s)
  <2>1. ASSUME NEW r \in Rows,
               setup' = [setup EXCEPT ![s] = [@ EXCEPT !.at = "token", !.of = r,
                           !.status = row[r].status, !.ids = row[r].ids]]
        PROVE  SetupsMove
    <3>1. setup[s].at = "idle" /\ row' = row BY <1>1 DEF SetupLook
    <3>2. setup \in [Setups -> SetupRecords] /\ setup[s] \in SetupRecords
      BY DEF IntegrationTypeOK
    <3>3. /\ setup'[s].at = "token" /\ setup'[s].of = r
          /\ setup'[s].status = row[r].status /\ setup'[s].ids = row[r].ids
      BY <2>1, <3>2 DEF SetupRecords
    <3>4. \A q \in Setups : q # s => setup'[q] = setup[q] BY <2>1, <3>2
    <3>. QED BY <3>1, <3>3, <3>4 DEF SetupMove, Remembers
  <2>2. SetupsMove BY <1>1, <2>1 DEF SetupLook, Goto
  <2>. QED BY <1>1, <2>2 DEF SetupLook
<1>2. CASE SetupToken(s) BY <1>2 DEF SetupToken
<1>3. CASE SetupForget(s)
  <2>1. SetupsMove
    <3>1. setup[s].at = "forget" /\ (Goto(s, "insert") \/ Goto(s, "done") \/ Goto(s, "resync"))
      BY <1>3 DEF SetupForget
    <3>. QED BY <3>1
  <2>2. RowsMove
    <3>1. CASE UNCHANGED row BY <3>1
    <3>2. ASSUME setup[s].at = "forget", setup[s].of # None,
                 setup[s].status = "error", ~setup[s].ids,
                 Update(setup[s].of, [row[setup[s].of] EXCEPT !.status = "gone"])
          PROVE  RowsMove
      <4>. DEFINE r == setup[s].of
      <4>1. r \in Setups /\ row[r] \in RowRecords
        BY <3>2 DEF IntegrationTypeOK, SetupRecords, Secrets
      <4>2. row[r].status # "provisioning"
        BY <3>2 DEF ForgetsFailed
      <4>3. CASE row' = row BY <4>3
      <4>4. CASE /\ row[r].status \notin {"absent", "gone"}
                 /\ row'[r] = [row[r] EXCEPT !.status = "gone"]
                 /\ \A q \in Setups : q # r => row'[q] = row[q]
        BY <4>1, <4>2, <4>4 DEF RowMove, SameRow, Deleted, RowRecords
      <4>. QED BY <3>2, <4>3, <4>4, UpdateOne
    <3>. QED BY <1>3, <3>1, <3>2 DEF SetupForget
  <2>. QED BY <1>3, <2>1, <2>2 DEF SetupForget
<1>4. CASE ResyncDns(s)
  <2>1. setup[s].at = "resync" /\ (Goto(s, "deploy") \/ Goto(s, "store") \/ Goto(s, "done"))
    BY <1>4 DEF ResyncDns
  <2>2. SetupsMove BY <2>1
  <2>. QED BY <1>4, <2>2 DEF ResyncDns
<1>5. CASE ResyncDeploy(s) BY <1>5 DEF ResyncDeploy
<1>6. CASE ResyncRotate(s)
  <2>. DEFINE r == setup[s].of
  <2>1. Update(r, [row[r] EXCEPT !.hash = s])
    BY <1>6 DEF ResyncRotate
  <2>2. CASE /\ r \in Setups /\ row'[r] = [row[r] EXCEPT !.hash = s]
             /\ \A q \in Setups : q # r => row'[q] = row[q]
    <3>1. row[r] \in RowRecords BY <2>2 DEF IntegrationTypeOK
    <3>. QED BY <1>6, <2>2, <3>1 DEF ResyncRotate, RowMove, SameRow, RowRecords
  <2>3. CASE row' = row BY <1>6, <2>3 DEF ResyncRotate
  <2>. QED BY <2>1, <2>2, <2>3, UpdateOne
<1>7. CASE ResyncStore(s) BY <1>7 DEF ResyncStore
<1>8. CASE StartInsert(s)
  <2>1. SetupsMove /\ setup'[s].at = "keep" BY <1>8 DEF StartInsert
  <2>2. RowsMove
    BY <1>8, <2>1 DEF StartInsert, RowMove, SameRow, Inserted, IntegrationTypeOK, RowRecords
  <2>. QED BY <1>8, <2>1, <2>2 DEF StartInsert
<1>9. CASE StartToken(s) BY <1>9 DEF StartToken
<1>10. CASE StartDns(s) BY <1>10 DEF StartDns
<1>11. CASE ProvisionGateway(s) BY <1>11 DEF ProvisionGateway
<1>12. CASE ProvisionScript(s) BY <1>12 DEF ProvisionScript
<1>13. CASE ProvisionRules(s)
  <2>1. ASSUME setup' = [setup EXCEPT ![s].at = "clear", ![s].found = rules], setup[s].at = "rules"
        PROVE  SetupsMove
    BY <2>1 DEF SetupMove, Remembers, IntegrationTypeOK, SetupRecords
  <2>2. SetupsMove BY <1>13, <2>1 DEF ProvisionRules
  <2>. QED BY <1>13, <2>2 DEF ProvisionRules
<1>14. CASE ProvisionClear(s)
  <2>1. ASSUME NEW q, setup' = [setup EXCEPT ![s].found = @ \ {q}] PROVE SetupsMove
    BY <2>1 DEF SetupMove, Remembers, IntegrationTypeOK, SetupRecords
  <2>2. SetupsMove BY <1>14, <2>1 DEF ProvisionClear
  <2>. QED BY <1>14, <2>2 DEF ProvisionClear
<1>15. CASE ProvisionRoute(s) BY <1>15 DEF ProvisionRoute
<1>16. CASE ProvisionRecord(s)
  <2>1. PICK st \in Live : Update(s, [status |-> st, ids |-> TRUE, hash |-> s])
    BY <1>16 DEF ProvisionRecord
  <2>2. RowsMove
    <3>1. CASE row' = row BY <3>1
    <3>2. CASE /\ row[s].status \notin {"absent", "gone"}
               /\ row'[s] = [status |-> st, ids |-> TRUE, hash |-> s]
               /\ \A q \in Setups : q # s => row'[q] = row[q]
      BY <1>16, <3>2 DEF ProvisionRecord, RowMove, SameRow, Recorded
    <3>. QED BY <2>1, <3>1, <3>2, UpdateOne
  <2>. QED BY <1>16, <2>2 DEF ProvisionRecord
<1>17. CASE ProvisionAlert(s) BY <1>17 DEF ProvisionAlert
<1>18. CASE SetupFail(s)
  <2>1. SetupsMove /\ setup'[s].at = "done" BY <1>18 DEF SetupFail
  <2>2. RowsMove
    <3>1. CASE row' = row BY <3>1
    <3>2. CASE /\ row[s].status \notin {"absent", "gone"}
               /\ row'[s] = [row[s] EXCEPT !.status = "error"]
               /\ \A q \in Setups : q # s => row'[q] = row[q]
      <4>1. row[s] \in RowRecords BY DEF IntegrationTypeOK
      <4>. QED BY <1>18, <2>1, <3>2, <4>1 DEF SetupFail, RowMove, SameRow, Failed, RowRecords
    <3>. QED BY <1>18, <3>1, <3>2, UpdateOne DEF SetupFail
  <2>. QED BY <1>18, <2>1, <2>2 DEF SetupFail
<1>19. CASE SetupCrash(s) BY <1>19 DEF SetupCrash, SetupUnderWay
<1>. QED
  BY <1>1, <1>2, <1>3, <1>4, <1>5, <1>6, <1>7, <1>8, <1>9, <1>10, <1>11, <1>12, <1>13,
     <1>14, <1>15, <1>16, <1>17, <1>18, <1>19 DEF Setup

\* A removal that only goes on to another step.
LEMMA RemoverGotoMoves ==
    ASSUME IntegrationTypeOK, NEW t \in Removers, NEW step, RemoverGoto(t, step),
           step \in Removing => remover[t].at \in Removing
    PROVE  \A u \in Removers : RemoverMove(u)
BY DEF IntegrationTypeOK, RemoverRecords, RemoverGoto, RemoverMove

\* The deletion of all rows notes the ones that are being provisioned.
LEMMA DeleteRowsMoves ==
    ASSUME IntegrationTypeOK, DeleteRows
    PROVE  \A s \in Setups : RowMove(s)
<1> SUFFICES ASSUME NEW s \in Setups PROVE RowMove(s) OBVIOUS
<1>1. row[s] \in RowRecords BY DEF IntegrationTypeOK
<1>2. CASE s \in Rows
  <2>1. row'[s] = [row[s] EXCEPT !.status = "gone"] BY <1>2 DEF DeleteRows
  <2>2. row[s].status \notin {"absent", "gone"} BY <1>2 DEF Rows
  <2>3. row[s].status = "provisioning" => s \in orphans' \/ ~SetupUnderWay(s)
    BY <1>2 DEF DeleteRows
  <2>. QED BY <1>1, <2>1, <2>2, <2>3 DEF RowMove, Deleted, RowRecords
<1>3. CASE s \notin Rows BY <1>3 DEF DeleteRows, RowMove, SameRow
<1>. QED BY <1>2, <1>3

LEMMA RemoverMoves ==
    ASSUME IntegrationInv, NEW t \in Removers,
           RemoverBegin(t) \/ Remover(t) \/ DropRows(t) \/ RemoverCrash(t)
    PROVE  Moves
<1>. USE RowsKept, SetupsKept, ScansKept, RemoverGotoMoves
     DEF Moves, outside, IntegrationInv, Removing
<1>. DEFINE RowsMove == \A q \in Setups : RowMove(q)
            RemoversMove == \A u \in Removers : RemoverMove(u)
<1>0. remover \in [Removers -> RemoverRecords] BY DEF IntegrationTypeOK
<1>1. CASE DropToken(t) BY <1>1 DEF DropToken
<1>2. CASE TeardownBegin(t) /\ UNCHANGED <<row, config, worker, rules, setup, scan, trouble, reached, orphans, unsure>>
  <2>1. ASSUME NEW r, remover' = [remover EXCEPT ![t].at = "look", ![t].of = r]
        PROVE  RemoversMove
    BY <1>0, <2>1 DEF RemoverMove, RemoverRecords
  <2>2. RemoversMove BY <1>2, <2>1 DEF TeardownBegin
  <2>. QED BY <1>2, <2>2
<1>3. CASE EraseBegin(t) /\ UNCHANGED <<row, config, worker, rules, setup, scan, trouble, reached, orphans, unsure>>
  <2>1. ASSUME remover' = [remover EXCEPT ![t].at = "choose", ![t].erases = TRUE, ![t].todo = Rows]
        PROVE  RemoversMove
    BY <1>0, <2>1 DEF RemoverMove, RemoverRecords
  <2>2. RemoversMove BY <1>3, <2>1 DEF EraseBegin
  <2>. QED BY <1>3, <2>2
<1>4. CASE RemoverReads(t)
  <2>1. ASSUME EraseChoose(t) PROVE RemoversMove
    <3>1. PICK r \in remover[t].todo :
            remover' = [remover EXCEPT ![t].at = "look", ![t].of = r, ![t].todo = @ \ {r}]
      BY <2>1 DEF EraseChoose
    <3>2. remover'[t].at = "look" BY <1>0, <3>1 DEF RemoverRecords
    <3>3. \A u \in Removers : u # t => remover'[u] = remover[u] BY <1>0, <3>1
    <3>. QED BY <3>2, <3>3 DEF RemoverMove
  <2>2. ASSUME TeardownLook(t), UNCHANGED row PROVE RemoversMove
    <3>. DEFINE r == remover[t].of
    <3>1. CASE RemoverGoto(t, "refused") BY <3>1
    <3>2. CASE ~RemoverGoto(t, "refused")
      <4>1. r \in Rows /\ row[r].status # "provisioning"
        BY <2>2, <3>2 DEF TeardownLook
      <4>2. remover' = [remover EXCEPT
              ![t].at = IF row[r].ids THEN "share" ELSE "delete",
              ![t].local = row[r].status = "error" /\ ~row[r].ids]
        BY <2>2, <4>1 DEF TeardownLook
      <4>3. remover'[t].of = r BY <1>0, <4>2 DEF RemoverRecords
      <4>4. \A u \in Removers : u # t => remover'[u] = remover[u] BY <1>0, <4>2
      <4>. QED BY <2>2, <4>1, <4>3, <4>4 DEF RemoverMove
    <3>. QED BY <3>1, <3>2
  <2>3. ASSUME TeardownShare(t) PROVE RemoversMove
    <3>1. remover[t].at = "share" /\ remover'[t].of = remover[t].of
      BY <1>0, <2>3 DEF TeardownShare, RemoverRecords
    <3>2. \A u \in Removers : u # t => remover'[u] = remover[u]
      BY <1>0, <2>3 DEF TeardownShare
    <3>. QED BY <3>1, <3>2 DEF RemoverMove
  <2>4. RemoversMove BY <1>4, <2>1, <2>2, <2>3 DEF RemoverReads
  <2>. QED BY <1>4, <2>4 DEF RemoverReads
<1>5. CASE TeardownUnroute(t) BY <1>5 DEF TeardownUnroute
<1>6. CASE TeardownUnscript(t) BY <1>6 DEF TeardownUnscript
<1>7. CASE TeardownRestore(t) BY <1>7 DEF TeardownRestore
<1>8. CASE TeardownForward(t) BY <1>8 DEF TeardownForward
<1>9. CASE TeardownDelete(t)
  <2>. DEFINE r == remover[t].of
  <2>1. Update(r, [row[r] EXCEPT !.status = "gone"]) BY <1>9 DEF TeardownDelete
  <2>2. RowsMove
    <3>1. CASE row' = row BY <3>1
    <3>2. CASE /\ r \in Setups /\ row[r].status \notin {"absent", "gone"}
               /\ row'[r] = [row[r] EXCEPT !.status = "gone"]
               /\ \A q \in Setups : q # r => row'[q] = row[q]
      <4>1. row[r] \in RowRecords BY <3>2 DEF IntegrationTypeOK
      <4>2. row[r].status # "provisioning" BY <1>9 DEF TeardownDelete, RemovesSettled
      <4>. QED BY <3>2, <4>1, <4>2 DEF RowMove, SameRow, Deleted, RowRecords
    <3>. QED BY <2>1, <3>1, <3>2, UpdateOne
  <2>. QED BY <1>9, <2>2 DEF TeardownDelete
<1>10. CASE TeardownRemain(t) BY <1>10 DEF TeardownRemain, Removed
<1>11. CASE TeardownForget(t) BY <1>11 DEF TeardownForget, Removed
<1>12. CASE EraseToken(t) BY <1>12 DEF EraseToken
<1>13. CASE EraseRows(t) BY <1>13, DeleteRowsMoves DEF EraseRows
<1>14. CASE DropRows(t) BY <1>14, DeleteRowsMoves DEF DropRows
<1>15. CASE RemoverCrash(t) BY <1>15 DEF RemoverCrash
<1>. QED
  BY <1>1, <1>2, <1>3, <1>4, <1>5, <1>6, <1>7, <1>8, <1>9, <1>10, <1>11, <1>12, <1>13,
     <1>14, <1>15 DEF Remover, RemoverBegin

LEMMA ScanMoves ==
    ASSUME IntegrationInv, NEW x \in Scans, ScanLook(x) \/ ScanActivate(x)
    PROVE  Moves
<1>. USE RowsKept, SetupsKept, RemoversKept DEF Moves, IntegrationInv
<1>. DEFINE RowsMove == \A q \in Setups : RowMove(q)
            ScansMove == \A y \in Scans : ScanMove(y)
<1>0. scan \in [Scans -> [at : {"idle", "activate", "done"}, of : Secrets]]
  BY DEF IntegrationTypeOK
<1>1. CASE ScanLook(x)
  <2>1. row' = row /\ \A y \in Scans : y # x => scan'[y] = scan[y]
    BY <1>0, <1>1 DEF ScanLook
  <2>2. scan'[x].at = "activate" => scan'[x].of \in Rows /\ row[scan'[x].of].status \in Live
    BY <1>0, <1>1 DEF ScanLook
  <2>3. ScansMove BY <2>1, <2>2 DEF ScanMove
  <2>. QED BY <1>1, <2>3 DEF ScanLook
<1>2. CASE ScanActivate(x)
  <2>. DEFINE r == scan[x].of
  <2>1. Update(r, [row[r] EXCEPT !.status = "active"]) /\ row[r].ids
    BY <1>2 DEF ScanActivate, ScanIsOfRecorded
  <2>2. RowsMove
    <3>1. CASE row' = row BY <3>1
    <3>2. CASE /\ r \in Setups /\ row[r].status \notin {"absent", "gone"}
               /\ row'[r] = [row[r] EXCEPT !.status = "active"]
               /\ \A q \in Setups : q # r => row'[q] = row[q]
      <4>1. row[r] \in RowRecords BY <3>2 DEF IntegrationTypeOK
      <4>. QED BY <2>1, <3>2, <4>1 DEF RowMove, SameRow, Activated, RowRecords
    <3>. QED BY <2>1, <3>1, <3>2, UpdateOne
  <2>3. ScansMove BY <1>0, <1>2 DEF ScanActivate, ScanMove
  <2>. QED BY <1>2, <2>2, <2>3 DEF ScanActivate
<1>. QED BY <1>1, <1>2

-----------------------------------------------------------------------------
(* The invariant, from the moves alone.                                    *)

LEMMA Inductive ==
    ASSUME IntegrationInv, IntegrationTypeOK', Moves
    PROVE  IntegrationInv'
<1>. USE DEF Live
<1>0. ASSUME NEW s \in Setups
      PROVE  RowMove(s) /\ SetupMove(s)
  BY DEF Moves
<1>1. NotYetInserted'
  BY <1>0 DEF IntegrationInv, NotYetInserted, RowMove, SetupMove,
     SameRow, Inserted, Deleted, Recorded, Failed, Activated
<1>2. FailedIsOver'
  BY <1>0 DEF IntegrationInv, FailedIsOver, RowMove, SetupMove,
     SameRow, Inserted, Deleted, Recorded, Failed, Activated
<1>3. LiveIsRecorded'
  BY <1>0 DEF IntegrationInv, LiveIsRecorded, RowMove,
     SameRow, Inserted, Deleted, Recorded, Failed, Activated
<1>4. \* A row that failed without ids, or is gone, stays so; ids are kept.
      ASSUME NEW r \in Setups
      PROVE  /\ row[r].status = "gone" => row'[r].status = "gone"
             /\ row[r].status = "error" /\ ~row[r].ids
                  => row'[r].status = "gone" \/ (row'[r].status = "error" /\ ~row'[r].ids)
             /\ row[r].ids => row'[r].ids
             /\ row[r].status \notin {"absent", "provisioning"}
                  => row'[r].status \notin {"absent", "provisioning"}
  BY <1>0 DEF IntegrationInv, FailedIsOver, NotYetInserted, RowMove,
     SameRow, Inserted, Deleted, Recorded, Failed, Activated
<1>5. ForgetsFailed'
  <2> SUFFICES ASSUME NEW s \in Setups, setup'[s].at \in {"idle", "token", "forget"},
                      setup'[s].of # None, setup'[s].status = "error", ~setup'[s].ids
               PROVE  \/ row'[setup'[s].of].status = "gone"
                      \/ row'[setup'[s].of].status = "error" /\ ~row'[setup'[s].of].ids
    BY DEF ForgetsFailed
  <2>1. CASE Remembers(s)
    <3>1. /\ setup[s].at \in {"idle", "token", "forget"}
          /\ setup[s].of # None /\ setup[s].status = "error" /\ ~setup[s].ids
      BY <1>0, <2>1 DEF SetupMove, Remembers
    <3>2. setup[s].of \in Setups
      BY <3>1 DEF IntegrationInv, IntegrationTypeOK, SetupRecords, Secrets
    <3>3. \/ row[setup[s].of].status = "gone"
          \/ row[setup[s].of].status = "error" /\ ~row[setup[s].of].ids
      BY <3>1 DEF IntegrationInv, ForgetsFailed
    <3>. QED BY <1>4, <2>1, <3>2, <3>3 DEF Remembers
  <2>2. CASE ~Remembers(s) BY <1>0, <2>2 DEF SetupMove
  <2>. QED BY <2>1, <2>2
<1>6. RemovesSettled'
  <2> SUFFICES ASSUME NEW t \in Removers, remover'[t].at \in Removing
               PROVE  /\ remover'[t].of # None
                      /\ row'[remover'[t].of].status \notin {"absent", "provisioning"}
    BY DEF RemovesSettled, Removing
  <2>1. CASE remover[t].at \in Removing /\ remover'[t].of = remover[t].of
    <3>1. /\ remover[t].of # None
          /\ row[remover[t].of].status \notin {"absent", "provisioning"}
      BY <2>1 DEF IntegrationInv, RemovesSettled, Removing
    <3>2. remover[t].of \in Setups
      BY <3>1 DEF IntegrationInv, IntegrationTypeOK, RemoverRecords, Secrets
    <3>. QED BY <1>4, <2>1, <3>1, <3>2
  <2>2. CASE remover'[t].of \in Rows /\ row[remover'[t].of].status # "provisioning" /\ row' = row
    BY <2>2 DEF Rows
  <2>. QED BY <2>1, <2>2 DEF Moves, RemoverMove
<1>7. ScanIsOfRecorded'
  <2> SUFFICES ASSUME NEW x \in Scans, scan'[x].at = "activate"
               PROVE  scan'[x].of # None /\ row'[scan'[x].of].ids
    BY DEF ScanIsOfRecorded
  <2>1. CASE scan[x].at = "activate" /\ scan'[x].of = scan[x].of
    <3>1. scan[x].of # None /\ row[scan[x].of].ids
      BY <2>1 DEF IntegrationInv, ScanIsOfRecorded
    <3>2. scan[x].of \in Setups
      BY <3>1 DEF IntegrationInv, IntegrationTypeOK, Secrets
    <3>. QED BY <1>4, <2>1, <3>1, <3>2
  <2>2. CASE scan'[x].of \in Rows /\ row[scan'[x].of].status \in Live /\ row' = row
    BY <2>2 DEF Rows, IntegrationInv, LiveIsRecorded
  <2>. QED BY <2>1, <2>2 DEF Moves, ScanMove
<1>. QED BY <1>1, <1>2, <1>3, <1>5, <1>6, <1>7 DEF IntegrationInv

LEMMA InitInv == Init => IntegrationInv
BY InitType DEF Init, IntegrationInv, NotYetInserted, FailedIsOver, LiveIsRecorded, Live,
   ForgetsFailed, RemovesSettled, ScanIsOfRecorded

LEMMA NextMoves == ASSUME IntegrationInv, Next PROVE Moves /\ IntegrationTypeOK'
BY SetupMoves, RemoverMoves, ScanMoves, SetupType, RemoverType, ScanType
   DEF Next, IntegrationInv

LEMMA NextInv == ASSUME IntegrationInv, [Next]_vars PROVE IntegrationInv'
<1>1. CASE Next BY <1>1, NextMoves, Inductive
<1>2. CASE UNCHANGED vars
  BY <1>2 DEF vars, histories, IntegrationInv, IntegrationTypeOK, NotYetInserted, FailedIsOver,
     LiveIsRecorded, ForgetsFailed, RemovesSettled, ScanIsOfRecorded, Rows
<1>. QED BY <1>1, <1>2

-----------------------------------------------------------------------------
\* What a caller read before it acts is still good enough when it does: the
\* row a setup forgets is a failed one, the row a removal deletes is settled,
\* the row a scan activates was recorded.
THEOREM Integration == Spec => []IntegrationInv
BY InitInv, NextInv, PTL DEF Spec

\* A domain that is being provisioned is removed by no teardown and no
\* repeated setup, for any number of them at once.
THEOREM NoTeardownOfProvisioning == Spec => ProvisioningIsNotTornDown
<1>. DEFINE Settled(s) ==
       row[s].status = "provisioning" /\ SetupUnderWay(s) /\ row'[s].status = "gone"
         => s \in orphans'
<1>1. ASSUME IntegrationInv, [Next]_vars PROVE [\A s \in Setups : Settled(s)]_vars
  <2>1. ASSUME Next, NEW s \in Setups PROVE Settled(s)
    BY <1>1, <2>1, NextMoves DEF Moves, RowMove, Live,
       SameRow, Inserted, Deleted, Recorded, Failed, Activated
  <2>. QED BY <1>1, <2>1
<1>. QED BY <1>1, Integration, PTL DEF Spec, ProvisioningIsNotTornDown

\* A failed attempt stays failed, whatever late task or scan there is.
THEOREM FailedIsFinal == Spec => FailedStaysFailed
<1>. DEFINE Final(s) ==
       row[s].status = "error" /\ ~row[s].ids => row'[s].status \in {"error", "gone"}
<1>1. ASSUME IntegrationInv, [Next]_vars PROVE [\A s \in Setups : Final(s)]_vars
  <2>1. ASSUME Next, NEW s \in Setups PROVE Final(s)
    BY <1>1, <2>1, NextMoves DEF Moves, RowMove, IntegrationInv, FailedIsOver, NotYetInserted,
       SameRow, Inserted, Deleted, Recorded, Failed, Activated
  <2>. QED BY <1>1, <2>1
<1>. QED BY <1>1, Integration, PTL DEF Spec, FailedStaysFailed

-----------------------------------------------------------------------------
(* Calls one at a time, as long as none crossed.  Fore is where a setup is *)
(* being answered, Resync where it synchronises a row it found, Tearing    *)
(* where a removal changes the zone of a row it found, Over where it is    *)
(* not under way.                                                          *)

Fore == {"token", "forget", "resync", "deploy", "rotate", "store", "insert", "keep", "dns"}
Resync == {"resync", "deploy", "rotate", "store"}
Tearing == {"share", "unroute", "unscript", "restore", "forward"}
Over == {"idle", "removed", "refused"}

\* There is one row at most, one setup that is being answered and one
\* removal under way; what the setup knows is the row there is.
OneRow == \A q, r \in Rows : q = r
OneFore == \A q, s \in Setups : setup[q].at \in Fore /\ setup[s].at \in Fore => q = s
OneRemover ==
    \A t, u \in Removers : remover[t].at \notin Over /\ remover[u].at \notin Over => t = u
Sees ==
    \A s \in Setups :
        /\ setup[s].at \in {"token", "forget"} \cup Resync => Rows \subseteq {setup[s].of}
        /\ setup[s].at = "insert" => Rows = {}
        /\ setup[s].at \in {"keep", "dns"} => Rows \subseteq {s}
Resolved ==
    \A s \in Setups :
        \/ /\ setup[s].at \in {"idle", "token", "forget"}
           /\ setup[s].of # None /\ setup[s].status # "provisioning"
        \/ setup[s].at \in Resync
        => setup[s].of # None /\ row[setup[s].of].status \notin {"absent", "provisioning"}
OneByOne == OneRow /\ OneFore /\ OneRemover /\ Sees /\ Resolved

\* While no row was deleted under its provisioning and no process died: the
\* rows, the Worker and the callers that change them belong together.
Calm == orphans = {} /\ ~crossed /\ "crash" \notin trouble
Provisions ==
    \A s \in Setups :
        setup[s].at \in {"keep", "dns", "gateway", "script", "rules", "clear", "record", "fail"}
          => row[s].status = "provisioning"
Unfailed == \A s \in Setups : row[s].ids => row[s].status \in Live \cup {"gone"}
Held ==
    \A t \in Removers :
        remover[t].at \in Tearing => remover[t].of # None /\ row[remover[t].of].status \in Live
Deploys ==
    \A s \in Setups :
        /\ setup[s].at \in {"rules", "clear", "record"} => worker = s
        /\ setup[s].at = "rotate" => worker \in {None, s}
Trusted ==
    ~unsure => \A r \in Rows :
        row[r].status \in Live =>
            worker \in {None, row[r].hash} \/ \E q \in Setups : setup[q].at = "rotate"
Matched == Provisions /\ Unfailed /\ Held /\ Deploys /\ Trusted

\* While Cloudflare granted everything too: the rules of the address.
Quiet == trouble = {} /\ orphans = {} /\ ~crossed
NoFail == \A s \in Setups : setup[s].at # "fail" /\ row[s].status # "error"
Clears ==
    \A s \in Setups :
        /\ setup[s].at = "clear" => setup[s].found = rules
        /\ setup[s].at = "record" => rules = {s}
Unrouted ==
    \A t \in Removers : remover[t].at \in {"unscript", "restore", "forward"} => rules = {}
Handed(r, t) ==
    remover[t].at \in {"unscript", "restore", "forward", "delete"} /\ remover[t].of = r
Routed ==
    \A r \in Rows :
        row[r].status \in Live => rules = {r} \/ \E t \in Removers : Handed(r, t)
NeverWithout ==
    rules = {} =>
        \/ \E s \in Setups : setup[s].at = "clear"
        \/ \E t \in Removers : remover[t].at \in {"unscript", "restore", "forward"}
        \/ \E t \in Removers : remover[t].at = "delete" /\ remover[t].of \in Setups \ Owned
        \/ \E r \in Setups \ Owned : row[r].status = "gone"
Deployed == worker = None => rules \subseteq {Forward}
Served == NoFail /\ Clears /\ Unrouted /\ Routed /\ NeverWithout /\ Deployed

SerialInv ==
    /\ IntegrationInv
    /\ ~crossed => OneByOne
    /\ Calm => Matched
    /\ Quiet => Served

-----------------------------------------------------------------------------
(* What one step does, field by field.                                     *)

OthersWait(s) == \A q \in Setups : q # s => setup'[q] = setup[q]
SameRows == \A r \in Setups : row'[r] = row[r]
SameZone == worker' = worker /\ rules' = rules
Writes(r, status, ids, hash) ==
    /\ \A q \in Setups : q # r => row'[q] = row[q]
    /\ r \in Rows => row'[r].status = status /\ row'[r].ids = ids /\ row'[r].hash = hash
    /\ r \in Setups /\ r \notin Rows => row'[r] = row[r]

Looks(s) ==
    /\ setup[s].at = "idle" /\ setup'[s].at = "token" /\ SameRows /\ SameZone
    /\ crossed' \/ \A q \in Setups : setup[q].at \notin Fore
    /\ \/ Rows = {} /\ Remembers(s)
       \/ setup'[s].of \in Rows /\ setup'[s].status = row[setup'[s].of].status
Walks(s) ==
    /\ SameRows /\ SameZone /\ Remembers(s)
    /\ \/ setup[s].at = "token" /\ setup'[s].at = "forget"
       \/ setup[s].at = "resync" /\ setup'[s].at \in {"deploy", "store"}
       \/ setup[s].at = "keep" /\ setup'[s].at = "dns"
       \/ setup[s].at = "dns" /\ setup'[s].at = "gateway"
       \/ setup[s].at = "gateway" /\ setup'[s].at = "script"
Stops(s) ==
    /\ SameRows /\ SameZone /\ setup'[s].at \in {"done", "raised"}
    /\ setup[s].at \in {"rotate", "clear"} => "crash" \in trouble'
Drifts(s) ==
    /\ SameRows /\ rules' = rules /\ worker' \in {worker, s} /\ unsure'
    /\ setup[s].at = "deploy" /\ setup'[s].at = "done"
Fails(s) ==
    /\ SameRows /\ setup'[s].at = "fail"
    /\ worker' # worker => worker' = s /\ setup[s].at = "script"
    /\ trouble' = {} => SameZone
    /\ setup[s].at \in {"dns", "gateway", "script", "rules", "clear", "alert"}
    /\ setup[s].at = "alert" => "crash" \in trouble'
    /\ trouble' = {} => setup[s].at = "clear" /\ setup[s].found # rules
Forgets(s) ==
    /\ setup[s].at = "forget" /\ setup'[s].at = "insert" /\ SameZone
    /\ \/ setup[s].of = None /\ SameRows
       \/ /\ setup[s].of \in Setups /\ row[setup[s].of].status \in {"error", "gone"}
          /\ Writes(setup[s].of, "gone", row[setup[s].of].ids, row[setup[s].of].hash)
Resyncs(s) ==
    /\ setup[s].at = "forget" /\ setup'[s].at = "resync" /\ SameRows /\ SameZone /\ Remembers(s)
    /\ setup[s].of # None /\ setup[s].status # "provisioning"
Deploying(s) ==
    /\ SameRows /\ rules' = rules /\ worker' = s /\ Remembers(s)
    /\ \/ setup[s].at = "deploy" /\ setup'[s].at = "rotate"
       \/ setup[s].at = "script" /\ setup'[s].at = "rules"
Rotates(s) ==
    /\ setup[s].at = "rotate" /\ setup'[s].at = "store" /\ SameZone /\ Remembers(s)
    /\ LET r == setup[s].of IN Writes(r, row[r].status, row[r].ids, s)
Inserts(s) ==
    /\ setup[s].at = "insert" /\ setup'[s].at = "keep" /\ SameZone
    /\ row'[s].status = "provisioning" /\ row'[s].ids = row[s].ids
    /\ \A q \in Setups : q # s => row'[q] = row[q]
Clearing(s) ==
    /\ SameRows /\ worker' = worker
    /\ \/ /\ setup[s].at = "rules" /\ setup'[s].at = "clear"
          /\ setup'[s].found = rules /\ rules' = rules
       \/ /\ setup[s].at = "clear" /\ setup'[s].at = "clear"
          /\ \E q : rules' = rules \ {q} /\ setup'[s].found = setup[s].found \ {q}
       \/ /\ setup[s].at = "clear" /\ setup'[s].at = "record"
          /\ setup[s].found = {} /\ rules' = rules \cup {s}
Records(s) ==
    /\ setup[s].at = "record" /\ setup'[s].at = "alert" /\ SameZone
    /\ \E st \in Live : Writes(s, st, TRUE, s)
Errs(s) ==
    /\ setup[s].at = "fail" /\ setup'[s].at = "done" /\ SameZone
    /\ Writes(s, "error", row[s].ids, row[s].hash)

SetupTurn(s) ==
    /\ OthersWait(s) /\ remover' = remover /\ scan' = scan
    /\ orphans' = orphans /\ trouble \subseteq trouble' /\ (crossed => crossed')
    /\ unsure' = unsure \/ Drifts(s) \/ Deploying(s)
    /\ \/ Looks(s) \/ Walks(s) \/ Stops(s) \/ Fails(s) \/ Forgets(s) \/ Resyncs(s)
       \/ Deploying(s) \/ Rotates(s) \/ Inserts(s) \/ Clearing(s) \/ Records(s) \/ Errs(s)
       \/ Drifts(s)

\* A setup that goes to another step, and a write of one row.
LEMMA GotoTurn ==
    ASSUME IntegrationTypeOK, NEW s \in Setups, NEW step, Goto(s, step)
    PROVE  OthersWait(s) /\ Remembers(s) /\ setup'[s].at = step /\ setup'[s].found = setup[s].found
BY DEF IntegrationTypeOK, SetupRecords, Goto, OthersWait, Remembers

LEMMA UpdateWrites ==
    ASSUME IntegrationTypeOK, NEW r
    PROVE  /\ \A st \in Statuses :
                r \in Setups /\ Update(r, [row[r] EXCEPT !.status = st])
                  => Writes(r, st, row[r].ids, row[r].hash)
           /\ \A h \in Secrets :
                r \in Setups /\ Update(r, [row[r] EXCEPT !.hash = h])
                  => Writes(r, row[r].status, row[r].ids, h)
           /\ \A st, i, h :
                Update(r, [status |-> st, ids |-> i, hash |-> h]) => Writes(r, st, i, h)
<1>1. row \in [Setups -> RowRecords] /\ Rows \subseteq Setups
  BY DEF IntegrationTypeOK, Rows
<1>2. ASSUME NEW new, Update(r, new)
      PROVE  /\ \A q \in Setups : q # r => row'[q] = row[q]
             /\ r \in Rows => row'[r] = new
             /\ r \in Setups /\ r \notin Rows => row'[r] = row[r]
  BY <1>1, <1>2 DEF Update
<1>3. ASSUME NEW st \in Statuses, r \in Setups, Update(r, [row[r] EXCEPT !.status = st])
      PROVE  Writes(r, st, row[r].ids, row[r].hash)
  <2>1. LET new == [row[r] EXCEPT !.status = st]
        IN  new.status = st /\ new.ids = row[r].ids /\ new.hash = row[r].hash
    BY <1>1, <1>3 DEF RowRecords
  <2>. QED BY <1>2, <1>3, <2>1 DEF Writes
<1>4. ASSUME NEW h \in Secrets, r \in Setups, Update(r, [row[r] EXCEPT !.hash = h])
      PROVE  Writes(r, row[r].status, row[r].ids, h)
  <2>1. LET new == [row[r] EXCEPT !.hash = h]
        IN  new.status = row[r].status /\ new.ids = row[r].ids /\ new.hash = h
    BY <1>1, <1>4 DEF RowRecords
  <2>. QED BY <1>2, <1>4, <2>1 DEF Writes
<1>5. ASSUME NEW st, NEW i, NEW h, Update(r, [status |-> st, ids |-> i, hash |-> h])
      PROVE  Writes(r, st, i, h)
  BY <1>2, <1>5 DEF Writes
<1>. QED BY <1>3, <1>4, <1>5

LEMMA SetupTurns ==
    ASSUME IntegrationInv, NEW s \in Setups,
           SetupLook(s) \/ Setup(s) \/ SetupCrash(s)
    PROVE  SetupTurn(s)
<1>. USE GotoTurn
     DEF SetupTurn, others, histories, Grants, Refuses, Loses, Raises, Dies, SameRows, SameZone,
         IntegrationInv
<1>1. CASE SetupLook(s)
  <2>1. crossed' \/ \A q \in Setups : setup[q].at \notin Fore
    BY <1>1 DEF SetupLook, BeingAnswered, SetupUnderWay, Background, Fore
  <2>2. CASE Rows = {} /\ setup' = [setup EXCEPT ![s].at = "token"]
    BY <1>1, <2>1, <2>2 DEF SetupLook, Goto, Looks
  <2>3. ASSUME NEW r \in Rows,
               setup' = [setup EXCEPT ![s] = [@ EXCEPT !.at = "token", !.of = r,
                           !.status = row[r].status, !.ids = row[r].ids]]
        PROVE  SetupTurn(s)
    <3>1. setup \in [Setups -> SetupRecords] /\ setup[s] \in SetupRecords
      BY DEF IntegrationTypeOK
    <3>2. /\ setup'[s].at = "token" /\ setup'[s].of = r
          /\ setup'[s].status = row[r].status
      BY <2>3, <3>1 DEF SetupRecords
    <3>3. OthersWait(s) BY <2>3, <3>1 DEF OthersWait
    <3>. QED BY <1>1, <2>1, <3>2, <3>3 DEF SetupLook, Looks
  <2>. QED BY <1>1, <2>2, <2>3 DEF SetupLook
<1>2. CASE SetupToken(s) BY <1>2 DEF SetupToken, Walks, Stops
<1>3. CASE SetupForget(s)
  <2>. DEFINE r == setup[s].of
  <2>1. CASE r = None /\ Goto(s, "insert") /\ UNCHANGED row
    BY <1>3, <2>1 DEF SetupForget, Forgets
  <2>2. CASE /\ r # None /\ setup[s].status = "error" /\ ~setup[s].ids
             /\ Update(r, [row[r] EXCEPT !.status = "gone"]) /\ Goto(s, "insert")
    <3>1. r \in Setups BY <2>2 DEF IntegrationTypeOK, SetupRecords, Secrets
    <3>2. row[r].status \in {"error", "gone"} BY <1>3, <2>2 DEF SetupForget, ForgetsFailed
    <3>3. Writes(r, "gone", row[r].ids, row[r].hash)
      BY <2>2, <3>1, UpdateWrites DEF Statuses
    <3>. QED BY <1>3, <2>2, <3>1, <3>2, <3>3 DEF SetupForget, Forgets
  <2>3. CASE /\ r # None /\ UNCHANGED row
             /\ Goto(s, IF setup[s].status = "provisioning" THEN "done" ELSE "resync")
    BY <1>3, <2>3 DEF SetupForget, Resyncs, Stops
  <2>. QED BY <1>3, <2>1, <2>2, <2>3 DEF SetupForget
<1>4. CASE ResyncDns(s) BY <1>4 DEF ResyncDns, Walks, Stops
<1>5. CASE ResyncDeploy(s) BY <1>5 DEF ResyncDeploy, Deploying, Drifts, Stops
<1>6. CASE ResyncRotate(s)
  <2>. DEFINE r == setup[s].of
  <2>1. Writes(r, row[r].status, row[r].ids, s)
    <3>1. CASE r \in Setups BY <1>6, <3>1, UpdateWrites DEF ResyncRotate, Secrets
    <3>2. CASE r \notin Setups BY <1>6, <3>2 DEF ResyncRotate, Writes, Update, Rows
    <3>. QED BY <3>1, <3>2
  <2>. QED BY <1>6, <2>1 DEF ResyncRotate, Rotates
<1>7. CASE ResyncStore(s) BY <1>7 DEF ResyncStore, Stops
<1>8. CASE StartInsert(s)
  <2>1. row'[s].status = "provisioning" /\ row'[s].ids = row[s].ids
    BY <1>8 DEF StartInsert, IntegrationTypeOK, RowRecords
  <2>2. \A q \in Setups : q # s => row'[q] = row[q]
    BY <1>8 DEF StartInsert, IntegrationTypeOK
  <2>. QED BY <1>8, <2>1, <2>2 DEF StartInsert, Inserts
<1>9. CASE StartToken(s) BY <1>9 DEF StartToken, Walks
<1>10. CASE StartDns(s) BY <1>10 DEF StartDns, Walks, Fails, Stops
<1>11. CASE ProvisionGateway(s) BY <1>11 DEF ProvisionGateway, Walks, Fails
<1>12. CASE ProvisionScript(s) BY <1>12 DEF ProvisionScript, Deploying, Fails
<1>13. CASE ProvisionRules(s)
  <2>1. CASE setup' = [setup EXCEPT ![s].at = "clear", ![s].found = rules] /\ Grants
    <3>1. setup'[s].at = "clear" /\ setup'[s].found = rules /\ OthersWait(s)
      BY <2>1 DEF IntegrationTypeOK, SetupRecords, OthersWait
    <3>. QED BY <1>13, <2>1, <3>1 DEF ProvisionRules, Clearing
  <2>2. CASE Raises(s) BY <1>13, <2>2 DEF ProvisionRules, Fails
  <2>. QED BY <1>13, <2>1, <2>2 DEF ProvisionRules
<1>14. CASE ProvisionClear(s)
  <2>1. PICK q \in setup[s].found :
         \/ /\ Grants /\ q \in rules
            /\ rules' = rules \ {q}
            /\ setup' = [setup EXCEPT ![s].found = @ \ {q}]
         \/ (Refuses \/ (Grants /\ q \notin rules)) /\ UNCHANGED rules /\ Goto(s, "fail")
         \/ Loses /\ rules' \in {rules, rules \ {q}} /\ Goto(s, "fail")
    BY <1>14 DEF ProvisionClear
  <2>2. CASE Grants /\ rules' = rules \ {q} /\ setup' = [setup EXCEPT ![s].found = @ \ {q}]
    <3>1. /\ setup'[s].at = setup[s].at /\ setup'[s].found = setup[s].found \ {q}
          /\ OthersWait(s)
      BY <2>2 DEF IntegrationTypeOK, SetupRecords, OthersWait
    <3>. QED BY <1>14, <2>2, <3>1 DEF ProvisionClear, Clearing
  <2>3. CASE (Refuses \/ (Grants /\ q \notin rules)) /\ UNCHANGED rules /\ Goto(s, "fail")
    <3>1. trouble' = {} => setup[s].found # rules BY <2>1, <2>3
    <3>. QED BY <1>14, <2>3, <3>1 DEF ProvisionClear, Fails
  <2>4. CASE Loses /\ Goto(s, "fail")
    BY <1>14, <2>4 DEF ProvisionClear, Fails
  <2>. QED BY <2>1, <2>2, <2>3, <2>4
<1>15. CASE ProvisionRoute(s) BY <1>15 DEF ProvisionRoute, Clearing, Fails
<1>16. CASE ProvisionRecord(s)
  <2>1. PICK st \in Live : Update(s, [status |-> st, ids |-> TRUE, hash |-> s])
    BY <1>16 DEF ProvisionRecord
  <2>2. Writes(s, st, TRUE, s) BY <2>1, UpdateWrites
  <2>. QED BY <1>16, <2>2 DEF ProvisionRecord, Records
<1>17. CASE ProvisionAlert(s) BY <1>17 DEF ProvisionAlert, Stops, Fails
<1>18. CASE SetupFail(s)
  <2>1. Writes(s, "error", row[s].ids, row[s].hash)
    BY <1>18, UpdateWrites DEF SetupFail, Statuses
  <2>. QED BY <1>18, <2>1 DEF SetupFail, Errs
<1>19. CASE SetupCrash(s) BY <1>19 DEF SetupCrash, SetupUnderWay, Stops
<1>. QED
  BY <1>1, <1>2, <1>3, <1>4, <1>5, <1>6, <1>7, <1>8, <1>9, <1>10, <1>11, <1>12, <1>13,
     <1>14, <1>15, <1>16, <1>17, <1>18, <1>19 DEF Setup

-----------------------------------------------------------------------------
(* The removals.                                                           *)

OthersRest(t) == \A u \in Removers : u # t => remover'[u] = remover[u]
SameHold(t) == remover'[t].of = remover[t].of

\* A step outside the zone: it reads, forgets the token or ends.
Wanders(t) ==
    /\ SameRows /\ SameZone
    /\ remover'[t].at \notin Tearing \cup {"delete"}
    /\ remover[t].at \in Tearing \cup {"delete"} => "crash" \in trouble'
    /\ remover[t].at \in Over => crossed' \/ \A u \in Removers : remover[u].at \in Over
Takes(t) ==
    /\ SameRows /\ SameZone
    /\ remover[t].at = "look" /\ remover'[t].of \in Rows
    /\ \/ remover'[t].at = "share" /\ row[remover'[t].of].ids
       \/ remover'[t].at = "delete"
Shares(t) ==
    /\ SameRows /\ SameZone /\ SameHold(t)
    /\ remover[t].at = "share" /\ remover'[t].at = "unroute"
Unroutes(t) ==
    /\ SameRows /\ worker' = worker /\ SameHold(t)
    /\ remover[t].at = "unroute" /\ remover'[t].at \in {"unscript", "restore", "refused"}
    /\ rules' \in {rules, rules \ {remover[t].of}}
    /\ trouble' = {} => rules' = rules \ {remover[t].of} /\ remover'[t].at # "refused"
Unscripts(t) ==
    /\ SameRows /\ rules' = rules /\ SameHold(t)
    /\ remover[t].at = "unscript" /\ remover'[t].at \in {"restore", "refused"}
    /\ worker' \in {worker, None}
    /\ trouble' = {} => remover'[t].at = "restore"
Restores(t) ==
    /\ SameRows /\ SameZone /\ SameHold(t)
    /\ remover[t].at = "restore" /\ remover'[t].at \in {"forward", "delete"}
    /\ trouble' = {} /\ rules = {} =>
         IF remover[t].of \in Owned THEN remover'[t].at = "forward" ELSE remover[t].of \in Setups
Forwards(t) ==
    /\ SameRows /\ worker' = worker /\ SameHold(t)
    /\ remover[t].at = "forward" /\ remover'[t].at = "delete"
    /\ rules' \in {rules, rules \cup {Forward}}
    /\ trouble' = {} => rules' = rules \cup {Forward}
Deletes(t) ==
    /\ SameZone
    /\ remover[t].at = "delete" /\ remover'[t].at = "remain"
    /\ LET r == remover[t].of IN Writes(r, "gone", row[r].ids, row[r].hash)
Empties(t) ==
    /\ SameZone
    /\ remover[t].at \notin Over \cup Tearing \cup {"delete"}
    /\ remover'[t].at = "removed"
    /\ \A r \in Rows :
         /\ row'[r].status = "gone" /\ row'[r].ids = row[r].ids
         /\ row[r].status = "provisioning" => r \in orphans' \/ ~SetupUnderWay(r)
    /\ \A r \in Setups \ Rows : row'[r] = row[r]

RemoverTurn(t) ==
    /\ OthersRest(t) /\ setup' = setup /\ scan' = scan
    /\ orphans \subseteq orphans' /\ trouble \subseteq trouble'
    /\ (crossed => crossed') /\ unsure' = unsure
    /\ \/ Wanders(t) \/ Takes(t) \/ Shares(t) \/ Unroutes(t) \/ Unscripts(t) \/ Restores(t)
       \/ Forwards(t) \/ Deletes(t) \/ Empties(t)

LEMMA RemoverGotoTurn ==
    ASSUME IntegrationTypeOK, NEW t \in Removers, NEW step, RemoverGoto(t, step)
    PROVE  OthersRest(t) /\ SameHold(t) /\ remover'[t].at = step
BY DEF IntegrationTypeOK, RemoverRecords, RemoverGoto, OthersRest, SameHold

LEMMA RemoverTurns ==
    ASSUME IntegrationInv, NEW t \in Removers,
           RemoverBegin(t) \/ Remover(t) \/ DropRows(t) \/ RemoverCrash(t)
    PROVE  RemoverTurn(t)
<1>. USE RemoverGotoTurn
     DEF RemoverTurn, outside, histories, Grants, Refuses, Loses, Dies, SameRows, SameZone,
         IntegrationInv, Tearing
<1>0. remover \in [Removers -> RemoverRecords]
  BY DEF IntegrationTypeOK
<1>1. RemoverIdle(t) =>
        (crossed => crossed') /\ (crossed' \/ \A u \in Removers : remover[u].at \in Over)
  BY DEF RemoverIdle, RemoverUnderWay, Over
<1>2. CASE DropToken(t) BY <1>1, <1>2 DEF DropToken, Wanders, RemoverIdle
<1>3. CASE TeardownBegin(t) /\ UNCHANGED <<row, config, worker, rules, setup, scan, trouble, reached, orphans, unsure>>
  <2>1. CASE RemoverGoto(t, "refused") BY <1>1, <1>3, <2>1 DEF TeardownBegin, Wanders, RemoverIdle
  <2>2. ASSUME NEW r, remover' = [remover EXCEPT ![t].at = "look", ![t].of = r]
        PROVE  RemoverTurn(t)
    <3>1. remover'[t].at = "look" /\ OthersRest(t)
      BY <1>0, <2>2 DEF RemoverRecords, OthersRest
    <3>. QED BY <1>1, <1>3, <3>1 DEF TeardownBegin, Wanders, RemoverIdle
  <2>. QED BY <1>3, <2>1, <2>2 DEF TeardownBegin
<1>4. CASE EraseBegin(t) /\ UNCHANGED <<row, config, worker, rules, setup, scan, trouble, reached, orphans, unsure>>
  <2>1. CASE RemoverGoto(t, "refused") BY <1>1, <1>4, <2>1 DEF EraseBegin, Wanders, RemoverIdle
  <2>2. CASE remover' = [remover EXCEPT ![t].at = "choose", ![t].erases = TRUE, ![t].todo = Rows]
    <3>1. remover'[t].at = "choose" /\ OthersRest(t)
      BY <1>0, <2>2 DEF RemoverRecords, OthersRest
    <3>. QED BY <1>1, <1>4, <3>1 DEF EraseBegin, Wanders, RemoverIdle
  <2>. QED BY <1>4, <2>1, <2>2 DEF EraseBegin
<1>5. CASE RemoverReads(t)
  <2>1. ASSUME EraseChoose(t) PROVE RemoverTurn(t)
    <3>1. PICK r \in remover[t].todo :
            remover' = [remover EXCEPT ![t].at = "look", ![t].of = r, ![t].todo = @ \ {r}]
      BY <2>1 DEF EraseChoose
    <3>2. remover'[t].at = "look" /\ OthersRest(t)
      BY <1>0, <3>1 DEF RemoverRecords, OthersRest
    <3>. QED BY <1>5, <2>1, <3>2 DEF RemoverReads, EraseChoose, Wanders, Over
  <2>2. ASSUME TeardownLook(t) PROVE RemoverTurn(t)
    <3>. DEFINE r == remover[t].of
    <3>1. CASE RemoverGoto(t, "refused")
      BY <1>5, <2>2, <3>1 DEF RemoverReads, TeardownLook, Wanders, Over
    <3>2. CASE ~RemoverGoto(t, "refused")
      <4>1. r \in Rows BY <2>2, <3>2 DEF TeardownLook
      <4>2. remover' = [remover EXCEPT
              ![t].at = IF row[r].ids THEN "share" ELSE "delete",
              ![t].local = row[r].status = "error" /\ ~row[r].ids]
        BY <2>2, <3>2 DEF TeardownLook
      <4>3. /\ remover'[t].at = IF row[r].ids THEN "share" ELSE "delete"
            /\ remover'[t].of = r /\ OthersRest(t)
        BY <1>0, <4>2 DEF RemoverRecords, OthersRest
      <4>. QED BY <1>5, <2>2, <4>1, <4>3 DEF RemoverReads, TeardownLook, Takes
    <3>. QED BY <3>1, <3>2
  <2>3. ASSUME TeardownShare(t) PROVE RemoverTurn(t)
    <3>1. PICK keep \in BOOLEAN :
            remover' = [remover EXCEPT ![t].at = "unroute", ![t].keep = keep]
      BY <2>3 DEF TeardownShare
    <3>2. remover'[t].at = "unroute" /\ SameHold(t) /\ OthersRest(t)
      BY <1>0, <3>1 DEF RemoverRecords, SameHold, OthersRest
    <3>. QED BY <1>5, <2>3, <3>2 DEF RemoverReads, TeardownShare, Shares
  <2>. QED BY <1>5, <2>1, <2>2, <2>3 DEF RemoverReads
<1>6. CASE TeardownUnroute(t) BY <1>6 DEF TeardownUnroute, Unroutes
<1>7. CASE TeardownUnscript(t) BY <1>7 DEF TeardownUnscript, Unscripts
<1>8. CASE TeardownRestore(t)
  <2>1. remover[t].of \in Setups
    BY <1>8 DEF TeardownRestore, RemovesSettled, IntegrationTypeOK, RemoverRecords, Secrets
  <2>. QED BY <1>8, <2>1 DEF TeardownRestore, Restores
<1>9. CASE TeardownForward(t) BY <1>9 DEF TeardownForward, Forwards
<1>10. CASE TeardownDelete(t)
  <2>. DEFINE r == remover[t].of
  <2>1. r \in Setups
    BY <1>10 DEF TeardownDelete, RemovesSettled, IntegrationTypeOK, RemoverRecords, Secrets
  <2>2. Writes(r, "gone", row[r].ids, row[r].hash)
    BY <1>10, <2>1, UpdateWrites DEF TeardownDelete, Statuses
  <2>. QED BY <1>10, <2>2 DEF TeardownDelete, Deletes
<1>11. CASE TeardownRemain(t) BY <1>11 DEF TeardownRemain, Removed, Wanders, Over
<1>12. CASE TeardownForget(t) BY <1>12 DEF TeardownForget, Removed, Wanders, Over
<1>13. CASE EraseToken(t) BY <1>13 DEF EraseToken, Wanders, Over
<1>14. ASSUME DeleteRows
       PROVE  /\ \A r \in Rows :
                   /\ row'[r].status = "gone" /\ row'[r].ids = row[r].ids
                   /\ row[r].status = "provisioning" => r \in orphans' \/ ~SetupUnderWay(r)
              /\ \A r \in Setups \ Rows : row'[r] = row[r]
              /\ orphans \subseteq orphans'
  <2>1. \A r \in Rows : r \in Setups /\ row[r] \in RowRecords BY DEF Rows, IntegrationTypeOK
  <2>2. \A r \in Rows : row'[r] = [row[r] EXCEPT !.status = "gone"]
    BY <1>14, <2>1 DEF DeleteRows
  <2>3. \A r \in Setups \ Rows : row'[r] = row[r] BY <1>14 DEF DeleteRows
  <2>. QED BY <1>14, <2>1, <2>2, <2>3 DEF DeleteRows, RowRecords
<1>15. CASE EraseRows(t) BY <1>14, <1>15 DEF EraseRows, Empties, Over
<1>16. CASE DropRows(t) BY <1>14, <1>16 DEF DropRows, Empties, Over
<1>17. CASE RemoverCrash(t) BY <1>17 DEF RemoverCrash, RemoverUnderWay, Wanders, Over
<1>. QED
  BY <1>2, <1>3, <1>4, <1>5, <1>6, <1>7, <1>8, <1>9, <1>10, <1>11, <1>12, <1>13,
     <1>15, <1>16, <1>17 DEF Remover, RemoverBegin

\* A scan activates the row it found, if it is still there.
ScanTurn ==
    /\ setup' = setup /\ remover' = remover /\ SameZone
    /\ orphans' = orphans /\ trouble' = trouble /\ crossed' = crossed /\ unsure' = unsure
    /\ \/ SameRows
       \/ \E r \in Setups : row[r].ids /\ Writes(r, "active", row[r].ids, row[r].hash)

LEMMA ScanTurns ==
    ASSUME IntegrationInv, NEW x \in Scans, ScanLook(x) \/ ScanActivate(x)
    PROVE  ScanTurn
<1>. USE DEF ScanTurn, SameZone, SameRows, histories
<1>1. CASE ScanLook(x) BY <1>1 DEF ScanLook
<1>2. CASE ScanActivate(x)
  <2>. DEFINE r == scan[x].of
  <2>1. r \in Setups /\ row[r].ids
    BY <1>2 DEF ScanActivate, IntegrationInv, ScanIsOfRecorded, IntegrationTypeOK, Secrets
  <2>2. Writes(r, "active", row[r].ids, row[r].hash)
    BY <1>2, <2>1, UpdateWrites DEF ScanActivate, IntegrationInv, Statuses
  <2>. QED BY <1>2, <2>1, <2>2 DEF ScanActivate
<1>. QED BY <1>1, <1>2

-----------------------------------------------------------------------------
(* One at a time.                                                          *)

\* No step but an insertion adds a row, and settled rows stay settled.
LEMMA RowsAfter ==
    ASSUME IntegrationInv, Moves
    PROVE  /\ \A r \in Rows' : r \in Rows \/ (setup[r].at = "insert" /\ setup'[r].at = "keep")
           /\ \A r \in Setups :
                row[r].status \notin {"absent", "provisioning"}
                  => row'[r].status \notin {"absent", "provisioning"}
<1>. SUFFICES ASSUME NEW r \in Setups
     PROVE  /\ r \in Rows' => r \in Rows \/ (setup[r].at = "insert" /\ setup'[r].at = "keep")
            /\ row[r].status \notin {"absent", "provisioning"}
                 => row'[r].status \notin {"absent", "provisioning"}
  BY DEF Rows
<1>. QED
  BY DEF Moves, RowMove, SameRow, Inserted, Deleted, Recorded, Failed, Activated, Rows, Live,
     IntegrationInv, NotYetInserted

LEMMA SetupOneByOne ==
    ASSUME IntegrationInv, OneByOne, IntegrationTypeOK', Moves, ~crossed',
           NEW s \in Setups, SetupTurn(s)
    PROVE  OneByOne'
<1>. DEFINE Entered(q) == setup[q].at = "insert" /\ setup'[q].at = "keep"
<1>. USE DEF Rows
<1>0. /\ \A q \in Setups : q # s => setup'[q] = setup[q]
      /\ remover' = remover
      /\ \A r \in Rows' : r \in Rows \/ Entered(r)
      /\ \A r \in Setups : row[r].status \notin {"absent", "provisioning"}
                             => row'[r].status \notin {"absent", "provisioning"}
  BY RowsAfter DEF SetupTurn, OthersWait
<1>1. \* Where the setup comes from.
      /\ setup'[s].at \in Fore =>
           \/ setup[s].at \in Fore
           \/ setup'[s].at = "token" /\ \A q \in Setups : setup[q].at \notin Fore
      /\ setup'[s].at \in {"token", "forget"} \cup Resync =>
           \/ /\ setup[s].at \in {"token", "forget"} \cup Resync
              /\ setup'[s].of = setup[s].of /\ setup'[s].status = setup[s].status
           \/ /\ setup[s].at = "idle" /\ SameRows
              /\ \/ Rows = {} /\ Remembers(s)
                 \/ setup'[s].of \in Rows /\ setup'[s].status = row[setup'[s].of].status
      /\ setup'[s].at \in {"token", "forget"} => setup[s].at \in {"idle", "token", "forget"}
      /\ setup'[s].at \in Resync =>
           \/ setup[s].at \in Resync
           \/ setup[s].at = "forget" /\ setup[s].of # None /\ setup[s].status # "provisioning"
      /\ setup'[s].at = "insert" => setup[s].at = "forget" /\ Forgets(s)
      /\ setup'[s].at \in {"keep", "dns"} => setup[s].at \in {"keep", "insert"}
      /\ setup'[s].at # "idle"
  BY DEF SetupTurn, Looks, Walks, Stops, Drifts, Fails, Forgets, Resyncs, Deploying, Rotates, Inserts,
     Clearing, Records, Errs, Fore, Resync, Remembers
<1>2. OneFore'
  BY <1>0, <1>1 DEF OneByOne, OneFore
<1>3. OneRemover' BY <1>0 DEF OneByOne, OneRemover
<1>4. \A q \in Setups : Entered(q) => q = s /\ Rows = {}
  BY <1>0 DEF OneByOne, Sees
<1>5. Rows' \subseteq Rows \/ (Rows' \subseteq {s} /\ Rows = {})
  BY <1>0, <1>4
<1>6. OneRow' BY <1>5 DEF OneByOne, OneRow
<1>7. Sees'
  <2> SUFFICES ASSUME NEW q \in Setups
      PROVE /\ setup'[q].at \in {"token", "forget"} \cup Resync => Rows' \subseteq {setup'[q].of}
            /\ setup'[q].at = "insert" => Rows' = {}
            /\ setup'[q].at \in {"keep", "dns"} => Rows' \subseteq {q}
    BY DEF Sees
  <2>1. CASE q # s
    <3>1. setup'[q] = setup[q] BY <1>0, <2>1
    <3>2. CASE setup[q].at \in Fore
      <4>1. \A r \in Setups : ~Entered(r)
        BY <1>0, <1>4, <2>1, <3>2 DEF OneByOne, OneFore, Fore
      <4>2. Rows' \subseteq Rows BY <1>0, <4>1
      <4>. QED BY <3>1, <4>2 DEF OneByOne, Sees
    <3>3. CASE setup[q].at \notin Fore BY <3>1, <3>3 DEF Fore, Resync
    <3>. QED BY <3>2, <3>3
  <2>2. CASE q = s
    <3>1. ASSUME setup'[s].at \in {"token", "forget"} \cup Resync
          PROVE  Rows' \subseteq {setup'[s].of}
      <4>1. \A r \in Setups : ~Entered(r) BY <1>4, <3>1 DEF Resync
      <4>2. Rows' \subseteq Rows BY <1>0, <4>1
      <4>3. Rows \subseteq {setup'[s].of}
        BY <1>1, <3>1 DEF OneByOne, Sees, OneRow, Resync
      <4>. QED BY <4>2, <4>3
    <3>2. ASSUME setup'[s].at = "insert" PROVE Rows' = {}
      <4>1. Forgets(s) /\ setup[s].at = "forget" BY <1>1, <3>2
      <4>2. \A r \in Setups : ~Entered(r) BY <1>4, <3>2
      <4>3. Rows' \subseteq Rows /\ Rows \subseteq {setup[s].of}
        BY <1>0, <4>1, <4>2 DEF OneByOne, Sees
      <4>4. CASE setup[s].of = None BY <4>3, <4>4, CallersAssumption
      <4>5. CASE setup[s].of # None
        <5>1. setup[s].of \notin Rows'
          BY <4>1, <4>5 DEF Forgets, Writes
        <5>. QED BY <4>3, <5>1
      <4>. QED BY <4>4, <4>5
    <3>3. ASSUME setup'[s].at \in {"keep", "dns"} PROVE Rows' \subseteq {s}
      BY <1>0, <1>1, <1>5, <3>3 DEF OneByOne, Sees
    <3>. QED BY <2>2, <3>1, <3>2, <3>3
  <2>. QED BY <2>1, <2>2
<1>8. Resolved'
  <2> SUFFICES ASSUME NEW q \in Setups,
                      \/ /\ setup'[q].at \in {"idle", "token", "forget"}
                         /\ setup'[q].of # None /\ setup'[q].status # "provisioning"
                      \/ setup'[q].at \in Resync
      PROVE setup'[q].of # None /\ row'[setup'[q].of].status \notin {"absent", "provisioning"}
    BY DEF Resolved
  <2>1. setup'[q].of # None => setup'[q].of \in Setups
    BY DEF IntegrationTypeOK, SetupRecords, Secrets
  <2>2. setup'[q].of # None /\ row[setup'[q].of].status \notin {"absent", "provisioning"}
    <3>1. CASE q # s BY <1>0, <3>1 DEF OneByOne, Resolved
    <3>2. CASE q = s
      <4>1. CASE /\ setup[s].at = "idle" /\ SameRows
                 /\ setup'[s].of \in Rows /\ setup'[s].status = row[setup'[s].of].status
        <5>1. setup'[s].at \notin Resync BY <1>1, <4>1 DEF Resync
        <5>2. setup'[s].of # None BY <4>1, CallersAssumption
        <5>. QED BY <3>2, <4>1, <5>1, <5>2
      <4>2. CASE setup'[s].of = setup[s].of /\ setup'[s].status = setup[s].status
        <5>1. \/ /\ setup[s].at \in {"idle", "token", "forget"}
                 /\ setup[s].of # None /\ setup[s].status # "provisioning"
              \/ setup[s].at \in Resync
          BY <1>1, <3>2, <4>2 DEF Resync
        <5>. QED BY <3>2, <4>2, <5>1 DEF OneByOne, Resolved
      <4>. QED BY <1>1, <3>2, <4>1, <4>2 DEF Remembers
    <3>. QED BY <3>1, <3>2
  <2>. QED BY <1>0, <2>1, <2>2
<1>. QED BY <1>2, <1>3, <1>6, <1>7, <1>8 DEF OneByOne

LEMMA StillOneByOne ==
    ASSUME IntegrationInv, OneByOne, IntegrationTypeOK', Moves,
           setup' = setup, OneRemover'
    PROVE  OneByOne'
<1>1. /\ Rows' \subseteq Rows
      /\ \A r \in Setups : row[r].status \notin {"absent", "provisioning"}
                             => row'[r].status \notin {"absent", "provisioning"}
  BY RowsAfter
<1>2. OneRow' BY <1>1 DEF OneByOne, OneRow
<1>3. OneFore' BY DEF OneByOne, OneFore
<1>4. Sees' BY <1>1 DEF OneByOne, Sees
<1>5. Resolved'
  BY <1>1 DEF OneByOne, Resolved, IntegrationTypeOK, SetupRecords, Secrets
<1>. QED BY <1>2, <1>3, <1>4, <1>5 DEF OneByOne

LEMMA RemoverOneByOne ==
    ASSUME IntegrationInv, OneByOne, IntegrationTypeOK', Moves, ~crossed',
           NEW t \in Removers, RemoverTurn(t)
    PROVE  OneByOne'
<1>1. remover[t].at \in Over => \A u \in Removers : remover[u].at \in Over
  BY DEF RemoverTurn, Wanders, Takes, Shares, Unroutes, Unscripts, Restores, Forwards, Deletes,
     Empties, Over
<1>2. OneRemover'
  BY <1>1 DEF OneByOne, OneRemover, RemoverTurn, OthersRest
<1>. QED BY <1>2, StillOneByOne DEF RemoverTurn

LEMMA ScanOneByOne ==
    ASSUME IntegrationInv, OneByOne, IntegrationTypeOK', Moves, ScanTurn
    PROVE  OneByOne'
<1>1. OneRemover' BY DEF OneByOne, OneRemover, ScanTurn
<1>. QED BY <1>1, StillOneByOne DEF ScanTurn

-----------------------------------------------------------------------------
(* The rows, the Worker and their callers belong together.                 *)

Provisioning == {"keep", "dns", "gateway", "script", "rules", "clear", "record", "fail"}

LEMMA CalmBefore ==
    ASSUME orphans \subseteq orphans', trouble \subseteq trouble', crossed => crossed'
    PROVE  (Calm' => Calm) /\ (Quiet' => Quiet) /\ (Quiet => Calm) /\ (Quiet' => Calm')
BY DEF Calm, Quiet

\* The row of a setup that is provisioning is the only one, and so is the
\* row a setup synchronises and the row a removal holds.
LEMMA OnlyRow ==
    ASSUME IntegrationInv, OneByOne, Matched
    PROVE  /\ \A s \in Setups : setup[s].at \in Provisioning => Rows = {s}
           /\ \A s \in Setups :
                setup[s].at \in Resync =>
                  /\ setup[s].of \in Setups
                  /\ row[setup[s].of].status \notin {"absent", "provisioning"}
                  /\ Rows \subseteq {setup[s].of}
                  /\ \A q \in Setups : row[q].status # "provisioning"
           /\ \A t \in Removers :
                remover[t].at \in Tearing =>
                  /\ remover[t].of \in Setups /\ Rows = {remover[t].of}
                  /\ row[remover[t].of].status \in Live
                  /\ \A q \in Setups : row[q].status # "provisioning"
<1>1. ASSUME NEW s \in Setups, setup[s].at \in Provisioning PROVE Rows = {s}
  BY <1>1 DEF Matched, Provisions, OneByOne, OneRow, Rows, Provisioning
<1>2. ASSUME NEW s \in Setups, setup[s].at \in Resync
      PROVE /\ setup[s].of \in Setups
            /\ row[setup[s].of].status \notin {"absent", "provisioning"}
            /\ Rows \subseteq {setup[s].of}
            /\ \A q \in Setups : row[q].status # "provisioning"
  <2>1. /\ setup[s].of \in Setups
        /\ row[setup[s].of].status \notin {"absent", "provisioning"}
    BY <1>2 DEF OneByOne, Resolved, IntegrationInv, IntegrationTypeOK, SetupRecords, Secrets
  <2>2. Rows \subseteq {setup[s].of} BY <1>2 DEF OneByOne, Sees
  <2>. QED BY <2>1, <2>2 DEF Rows
<1>3. ASSUME NEW t \in Removers, remover[t].at \in Tearing
      PROVE  /\ remover[t].of \in Setups /\ Rows = {remover[t].of}
             /\ row[remover[t].of].status \in Live
             /\ \A q \in Setups : row[q].status # "provisioning"
  <2>1. remover[t].of \in Setups /\ row[remover[t].of].status \in Live
    BY <1>3 DEF Matched, Held, IntegrationInv, IntegrationTypeOK, RemoverRecords, Secrets
  <2>2. Rows = {remover[t].of} BY <2>1 DEF OneByOne, OneRow, Rows, Live
  <2>. QED BY <2>1, <2>2 DEF Rows, Live
<1>. QED BY <1>1, <1>2, <1>3

LEMMA SetupMatched ==
    ASSUME IntegrationInv, OneByOne, OneByOne', Matched, Calm', Moves,
           NEW s \in Setups, SetupTurn(s)
    PROVE  Matched'
<1>. USE DEF Live
<1>0. /\ \A q \in Setups : q # s => setup'[q] = setup[q]
      /\ remover' = remover
      /\ setup'[s].at \in {"rules", "rotate"} /\ setup[s].at \notin {"rules", "rotate"}
           => worker' = s
      /\ worker' # worker => worker' = s /\ setup[s].at \in {"deploy", "script"}
      /\ worker' # worker /\ setup[s].at = "deploy" => setup'[s].at = "rotate" \/ unsure'
      /\ setup'[s].at # "rotate" /\ setup[s].at # "script" /\ ~unsure' => ~unsure
  <2>1. CASE Deploying(s) BY <2>1 DEF SetupTurn, OthersWait, Deploying
  <2>2. CASE Drifts(s) BY <2>2 DEF SetupTurn, OthersWait, Drifts
  <2>3. CASE ~Deploying(s) /\ ~Drifts(s)
    <3>1. unsure' = unsure BY <2>3 DEF SetupTurn
    <3>. QED
      BY <2>3, <3>1 DEF SetupTurn, OthersWait, Looks, Walks, Stops, Fails, Forgets, Resyncs,
         Rotates, Inserts, Clearing, Records, Errs, SameZone
  <2>. QED BY <2>1, <2>2, <2>3
<1>1. \* The row it writes.
      \/ SameRows
      \/ Forgets(s) /\ setup[s].of \in Setups
      \/ Rotates(s) \/ Inserts(s) \/ Records(s) \/ Errs(s)
  BY DEF SetupTurn, Looks, Walks, Stops, Drifts, Fails, Forgets, Resyncs, Deploying, Clearing
<1>2. \* Rows that change status.
      \A r \in Setups :
        \/ row'[r].status = row[r].status
        \/ r = s /\ Inserts(s)
        \/ r = s /\ Records(s) /\ row[r].status = "provisioning"
        \/ r = s /\ Errs(s) /\ row[r].status = "provisioning"
        \/ row[r].status \in {"error", "gone"} /\ row'[r].status = "gone"
  <2>1. CASE Forgets(s) /\ setup[s].of \in Setups
    BY <2>1 DEF Forgets, Writes, Rows, SameRows
  <2>2. CASE Rotates(s) BY <2>2 DEF Rotates, Writes
  <2>3. CASE Inserts(s) BY <2>3 DEF Inserts
  <2>4. CASE Records(s) BY <2>4 DEF Records, Writes, Matched, Provisions
  <2>5. CASE Errs(s) BY <2>5 DEF Errs, Writes, Matched, Provisions
  <2>. QED BY <1>1, <2>1, <2>2, <2>3, <2>4, <2>5 DEF SameRows
<1>3. Provisions'
  <2> SUFFICES ASSUME NEW q \in Setups, setup'[q].at \in Provisioning
               PROVE  row'[q].status = "provisioning"
    BY DEF Provisions, Provisioning
  <2>1. setup[q].at \in Provisioning \/ (q = s /\ Inserts(s))
    BY <1>0, Calm' DEF SetupTurn, Looks, Walks, Stops, Drifts, Fails, Forgets, Resyncs, Deploying,
       Rotates, Clearing, Records, Errs, Provisioning, Calm
  <2>2. CASE q = s /\ Inserts(s) BY <2>2 DEF Inserts
  <2>3. CASE setup[q].at \in Provisioning /\ ~(q = s /\ Inserts(s))
    <3>1. row[q].status = "provisioning" BY <2>3 DEF Matched, Provisions, Provisioning
    <3>2. ~(q = s /\ (Records(s) \/ Errs(s)))
      BY DEF Records, Errs, Provisioning
    <3>. QED BY <1>2, <2>3, <3>1, <3>2
  <2>. QED BY <2>1, <2>2, <2>3
<1>4. Unfailed'
  <2> SUFFICES ASSUME NEW q \in Setups, row'[q].ids PROVE row'[q].status \in Live \cup {"gone"}
    BY DEF Unfailed
  <2>1. CASE Records(s) /\ q = s /\ row'[q].status # row[q].status
    BY <2>1 DEF Records, Writes, Rows
  <2>2. CASE ~(Records(s) /\ q = s /\ row'[q].status # row[q].status)
    <3>1. row[q].ids \/ (Records(s) /\ q = s)
      BY <1>1 DEF SameRows, Forgets, Rotates, Inserts, Errs, Records, Writes, Rows
    <3>2. CASE row[q].ids
      <4>1. row[q].status \in Live \cup {"gone"} BY <3>2 DEF Matched, Unfailed
      <4>2. ~(q = s /\ Inserts(s))
        BY <4>1 DEF Inserts, IntegrationInv, NotYetInserted
      <4>. QED BY <1>2, <2>2, <4>1, <4>2
    <3>3. CASE Records(s) /\ q = s
      <4>1. row[q].status = "provisioning" BY <3>3 DEF Records, Matched, Provisions
      <4>2. row'[q].status \in Live BY <3>3, <4>1 DEF Records, Writes, Rows
      <4>. QED BY <4>2
    <3>. QED BY <3>1, <3>2, <3>3
  <2>. QED BY <2>1, <2>2
<1>5. Held'
  <2> SUFFICES ASSUME NEW t \in Removers, remover[t].at \in Tearing
               PROVE  remover[t].of # None /\ row'[remover[t].of].status \in Live
    BY <1>0 DEF Held
  <2>1. /\ remover[t].of \in Setups /\ row[remover[t].of].status \in Live
        /\ Rows = {remover[t].of}
    BY OnlyRow
  <2>2. ~(remover[t].of = s /\ Inserts(s))
    BY <2>1 DEF Inserts, IntegrationInv, NotYetInserted
  <2>. QED BY <1>2, <2>1, <2>2, CallersAssumption
<1>6. Deploys'
  <2> SUFFICES ASSUME NEW q \in Setups
               PROVE  /\ setup'[q].at \in {"rules", "clear", "record"} => worker' = q
                      /\ setup'[q].at = "rotate" => worker' \in {None, q}
    BY DEF Deploys
  <2>1. CASE q = s
    <3>1. \/ setup'[s].at \notin {"rules", "clear", "record", "rotate"}
          \/ worker' = s
          \/ /\ worker' = worker
             /\ setup'[s].at \in {"clear", "record"} /\ setup[s].at \in {"rules", "clear"}
      BY DEF SetupTurn, Looks, Walks, Stops, Drifts, Fails, Forgets, Resyncs, Deploying,
         Rotates, Inserts, Clearing, Records, Errs
    <3>. QED BY <2>1, <3>1 DEF Matched, Deploys
  <2>2. CASE q # s
    <3>1. CASE worker' = worker BY <1>0, <2>2, <3>1 DEF Matched, Deploys
    <3>2. CASE setup[s].at = "script"
      <4>1. Rows = {s} BY <3>2, OnlyRow DEF Provisioning
      <4>2. row[s].status = "provisioning" BY <3>2 DEF Matched, Provisions
      <4>3. setup[q].at \notin {"rules", "clear", "record", "rotate"}
        BY <2>2, <4>1, <4>2, OnlyRow DEF Provisioning, Resync
      <4>. QED BY <1>0, <2>2, <4>3
    <3>3. CASE setup[s].at = "deploy"
      <4>1. \A r \in Setups : row[r].status # "provisioning" BY <3>3, OnlyRow DEF Resync
      <4>2. setup[q].at \notin {"rules", "clear", "record"}
        BY <4>1 DEF Matched, Provisions
      <4>3. setup[q].at # "rotate"
        BY <2>2, <3>3 DEF OneByOne, OneFore, Fore
      <4>. QED BY <1>0, <2>2, <4>2, <4>3
    <3>. QED BY <1>0, <3>1, <3>2, <3>3
  <2>. QED BY <2>1, <2>2
<1>7. Trusted'
  <2> SUFFICES ASSUME NEW r \in Setups, row'[r].status \in Live, worker' # None, ~unsure',
                      \A q \in Setups : setup'[q].at # "rotate"
               PROVE  worker' = row'[r].hash
    BY DEF Trusted, Rows
  <2>1. CASE Records(s) /\ r = s
    <3>1. row[s].status = "provisioning" BY <2>1 DEF Records, Matched, Provisions
    <3>2. row'[s].hash = s BY <2>1, <3>1 DEF Records, Writes, Rows
    <3>3. worker' = worker /\ worker = s BY <2>1 DEF Records, SameZone, Matched, Deploys
    <3>. QED BY <2>1, <3>2, <3>3
  <2>2. CASE ~(Records(s) /\ r = s)
    <3>1. row[r].status \in Live /\ row'[r].status = row[r].status
      BY <1>2, <2>2 DEF Inserts, Errs, Writes, Rows
    <3>2. r \in Rows BY <3>1 DEF Rows
    <3>3. CASE Rotates(s)
      <4>1. r = setup[s].of BY <3>2, <3>3, OnlyRow DEF Rotates, Resync
      <4>2. row'[r].hash = s BY <3>2, <3>3, <4>1 DEF Rotates, Writes
      <4>3. worker' = worker /\ worker \in {None, s}
        BY <3>3 DEF Rotates, SameZone, Matched, Deploys
      <4>. QED BY <4>2, <4>3
    <3>4. CASE ~Rotates(s)
      <4>1. row'[r].hash = row[r].hash
        BY <1>1, <2>2, <3>1, <3>4 DEF SameRows, Forgets, Inserts, Records, Errs, Writes, Rows,
           IntegrationInv, NotYetInserted
      <4>2. worker' = worker /\ ~unsure
        <5>1. setup[s].at # "script"
          BY <3>1, <3>2, OnlyRow DEF Provisioning, Matched, Provisions
        <5>. QED BY <1>0, <5>1
      <4>3. \A q \in Setups : setup[q].at # "rotate"
        <5>1. setup[s].at # "rotate"
          BY <3>4, Calm' DEF SetupTurn, Looks, Walks, Stops, Drifts, Fails, Forgets, Resyncs, Deploying,
             Inserts, Clearing, Records, Errs, Calm
        <5>. QED BY <1>0, <5>1
      <4>. QED BY <3>1, <3>2, <4>1, <4>2, <4>3 DEF Matched, Trusted
    <3>. QED BY <3>3, <3>4
  <2>. QED BY <2>1, <2>2
<1>. QED BY <1>3, <1>4, <1>5, <1>6, <1>7 DEF Matched

\* The row that a removal deletes: it is the one it holds, or there is none.
LEMMA RemoverRows ==
    ASSUME IntegrationInv, OneByOne, Matched, Calm', NEW t \in Removers, RemoverTurn(t)
    PROVE  \A r \in Setups :
             \/ row'[r] = row[r]
             \/ /\ r \in Rows /\ setup[r].at \notin Provisioning /\ row'[r].status = "gone"
                /\ row'[r].ids = row[r].ids
                /\ remover[t].at \notin Over \cup Tearing
                /\ remover[t].at = "delete" => remover[t].of = r
<1> SUFFICES ASSUME NEW r \in Setups, row'[r] # row[r]
    PROVE  /\ r \in Rows /\ setup[r].at \notin Provisioning /\ row'[r].status = "gone"
           /\ row'[r].ids = row[r].ids
           /\ remover[t].at \notin Over \cup Tearing
           /\ remover[t].at = "delete" => remover[t].of = r
  OBVIOUS
<1>1. Deletes(t) \/ Empties(t)
  BY DEF RemoverTurn, Wanders, Takes, Shares, Unroutes, Unscripts, Restores, Forwards, SameRows
<1>0. setup[r].at \in Provisioning => row[r].status = "provisioning" /\ SetupUnderWay(r)
  BY DEF Matched, Provisions, Provisioning, SetupUnderWay
<1>2. CASE Deletes(t)
  BY <1>0, <1>2 DEF Deletes, Writes, Over, Tearing, IntegrationInv, RemovesSettled
<1>3. CASE Empties(t)
  BY <1>0, <1>3, Calm' DEF Empties, Calm
<1>. QED BY <1>1, <1>2, <1>3

LEMMA RemoverMatched ==
    ASSUME IntegrationInv, OneByOne, Matched, Calm', Moves, NEW t \in Removers, RemoverTurn(t)
    PROVE  Matched'
<1>. USE DEF Live
<1>0. /\ \A u \in Removers : u # t => remover'[u] = remover[u]
      /\ setup' = setup
      /\ worker' # worker => worker' = None /\ remover[t].at = "unscript"
  BY DEF RemoverTurn, OthersRest, Wanders, Takes, Shares, Unroutes, Unscripts, Restores, Forwards,
     Deletes, Empties, SameZone
<1>1. \A r \in Setups :
        row'[r] = row[r] \/ (r \in Rows /\ setup[r].at \notin Provisioning
                             /\ row'[r].status = "gone" /\ row'[r].ids = row[r].ids)
  BY RemoverRows
<1>2. Provisions' BY <1>0, <1>1 DEF Matched, Provisions, Provisioning
<1>3. Unfailed' BY <1>1 DEF Matched, Unfailed
<1>4. Held'
  <2> SUFFICES ASSUME NEW u \in Removers, remover'[u].at \in Tearing
               PROVE  remover'[u].of # None /\ row'[remover'[u].of].status \in Live
    BY DEF Held
  <2>1. CASE u # t
    <3>1. remover'[u] = remover[u] BY <1>0, <2>1
    <3>2. /\ remover[u].of \in Setups /\ row[remover[u].of].status \in Live
      BY <2>1, <3>1, OnlyRow
    <3>3. remover[t].at \in Over
      BY <2>1, <3>1 DEF OneByOne, OneRemover, Tearing, Over
    <3>4. row'[remover[u].of] = row[remover[u].of] BY <3>2, <3>3, RemoverRows
    <3>. QED BY <3>1, <3>2, <3>4, CallersAssumption
  <2>2. CASE u = t
    <3>1. CASE remover[t].at \in Tearing /\ SameHold(t)
      <4>1. /\ remover[t].of \in Setups /\ row[remover[t].of].status \in Live
        BY <3>1, OnlyRow
      <4>2. row'[remover[t].of] = row[remover[t].of] BY <3>1, <4>1, RemoverRows
      <4>. QED BY <2>2, <3>1, <4>1, <4>2, CallersAssumption DEF SameHold
    <3>2. CASE SameRows /\ remover'[t].of \in Rows /\ row[remover'[t].of].ids
      <4>1. row[remover'[t].of].status \in Live
        BY <3>2 DEF Rows, Matched, Unfailed
      <4>. QED BY <2>2, <3>2, <4>1, CallersAssumption DEF SameRows, Rows
    <3>3. (remover[t].at \in Tearing /\ SameHold(t))
            \/ (SameRows /\ remover'[t].of \in Rows /\ row[remover'[t].of].ids)
      BY <2>2 DEF RemoverTurn, Wanders, Takes, Shares, Unroutes, Unscripts, Restores, Forwards,
         Deletes, Empties, Tearing
    <3>. QED BY <3>1, <3>2, <3>3
  <2>. QED BY <2>1, <2>2
<1>5. Deploys'
  <2>1. CASE worker' = worker BY <1>0, <2>1 DEF Matched, Deploys
  <2>2. CASE worker' # worker
    <3>1. \A q \in Setups : row[q].status # "provisioning"
      BY <1>0, <2>2, OnlyRow DEF Tearing
    <3>2. \A q \in Setups : setup'[q].at \notin {"rules", "clear", "record"}
      BY <1>0, <3>1 DEF Matched, Provisions
    <3>. QED BY <1>0, <2>2, <3>2 DEF Deploys
  <2>. QED BY <2>1, <2>2
<1>6. Trusted'
  <2> SUFFICES ASSUME NEW r \in Setups, row'[r].status \in Live, worker' # None, ~unsure',
                      \A q \in Setups : setup'[q].at # "rotate"
               PROVE  worker' = row'[r].hash
    BY DEF Trusted, Rows
  <2>1. row'[r] = row[r] /\ ~unsure BY <1>1 DEF RemoverTurn
  <2>. QED BY <1>0, <2>1 DEF Matched, Trusted, Rows
<1>. QED BY <1>2, <1>3, <1>4, <1>5, <1>6 DEF Matched

LEMMA ScanMatched ==
    ASSUME IntegrationInv, Matched, ScanTurn
    PROVE  Matched'
<1>. USE DEF Live
<1>1. \A r \in Setups :
        \/ row'[r] = row[r]
        \/ /\ row[r].status \in Live /\ row'[r].status \in Live
           /\ row'[r].ids = row[r].ids /\ row'[r].hash = row[r].hash
  BY DEF ScanTurn, SameRows, Writes, Rows, Matched, Unfailed
<1>2. setup' = setup /\ remover' = remover /\ worker' = worker /\ unsure' = unsure
  BY DEF ScanTurn, SameZone
<1>3. Provisions' BY <1>1, <1>2 DEF Matched, Provisions
<1>4. Unfailed' BY <1>1 DEF Matched, Unfailed
<1>5. Held'
  BY <1>1, <1>2 DEF Matched, Held, IntegrationInv, IntegrationTypeOK, RemoverRecords, Secrets
<1>6. Deploys' BY <1>2 DEF Matched, Deploys
<1>7. Trusted' BY <1>1, <1>2 DEF Matched, Trusted, Rows
<1>. QED BY <1>3, <1>4, <1>5, <1>6, <1>7 DEF Matched

-----------------------------------------------------------------------------
(* The rules of the address.                                               *)

\* A row that was deleted stays so.
LEMMA GoneStaysGone ==
    ASSUME IntegrationInv, Moves, NEW r \in Setups, row[r].status = "gone"
    PROVE  row'[r].status = "gone"
BY DEF IntegrationInv, NotYetInserted, Moves, RowMove,
   SameRow, Inserted, Deleted, Recorded, Failed, Activated

LEMMA SetupServed ==
    ASSUME IntegrationInv, OneByOne, Matched, Matched', Served, Quiet', Moves,
           OneByOne', NEW s \in Setups, SetupTurn(s)
    PROVE  Served'
<1>. USE DEF Live
<1>0. /\ \A q \in Setups : q # s => setup'[q] = setup[q]
      /\ remover' = remover /\ trouble' = {}
  BY Quiet' DEF SetupTurn, OthersWait, Quiet
<1>1. \* Only the setup that clears and replaces the rules changes them.
      /\ rules' # rules => setup[s].at = "clear" /\ setup'[s].at \in {"clear", "record"}
      /\ setup'[s].at = "clear" =>
           \/ setup'[s].found = rules' /\ setup[s].at = "rules"
           \/ /\ setup[s].at = "clear"
              /\ \E q : rules' = rules \ {q} /\ setup'[s].found = setup[s].found \ {q}
      /\ setup'[s].at = "record" =>
           setup[s].at = "clear" /\ setup[s].found = {} /\ rules' = rules \cup {s}
      /\ setup[s].at = "clear" =>
           \/ setup'[s].at \in {"clear", "record"}
           \/ setup'[s].at = "fail" /\ setup[s].found # rules
  BY <1>0 DEF SetupTurn, Looks, Walks, Stops, Drifts, Fails, Forgets, Resyncs, Deploying, Rotates,
     Inserts, Clearing, Records, Errs, SameZone
<1>2. /\ setup'[s].at # "fail"
      /\ \A r \in Setups : row'[r].status # "error"
  <2>1. setup'[s].at # "fail"
    BY <1>0 DEF SetupTurn, Looks, Walks, Stops, Drifts, Fails, Forgets, Resyncs, Deploying, Rotates,
       Inserts, Clearing, Records, Errs, Served, Clears
  <2>2. ~Errs(s) BY DEF Errs, Served, NoFail
  <2>3. \A r \in Setups : row'[r].status # "error"
    BY <2>2 DEF Moves, RowMove, SameRow, Inserted, Deleted, Recorded, Failed, Activated,
       Served, NoFail
  <2>. QED BY <2>1, <2>3
<1>3. NoFail' BY <1>0, <1>2 DEF Served, NoFail
<1>4. Clears'
  <2> SUFFICES ASSUME NEW q \in Setups
               PROVE  /\ setup'[q].at = "clear" => setup'[q].found = rules'
                      /\ setup'[q].at = "record" => rules' = {q}
    BY DEF Clears
  <2>1. CASE q = s BY <1>1, <2>1 DEF Served, Clears
  <2>2. CASE q # s
    <3>1. CASE rules' = rules BY <1>0, <2>2, <3>1 DEF Served, Clears
    <3>2. CASE rules' # rules
      <4>1. Rows = {s} BY <1>1, <3>2, OnlyRow DEF Provisioning
      <4>2. setup[q].at \notin {"clear", "record"} BY <2>2, <4>1, OnlyRow DEF Provisioning
      <4>. QED BY <1>0, <2>2, <4>2
    <3>. QED BY <3>1, <3>2
  <2>. QED BY <2>1, <2>2
<1>5. rules' # rules =>
        /\ \A t \in Removers : remover[t].at \notin Tearing
        /\ \A r \in Rows : row[r].status \notin Live
        /\ worker = s /\ worker' = worker
  <2> SUFFICES ASSUME rules' # rules
               PROVE  /\ \A t \in Removers : remover[t].at \notin Tearing
                      /\ \A r \in Rows : row[r].status \notin Live
                      /\ worker = s /\ worker' = worker
    OBVIOUS
  <2>1. setup[s].at = "clear" /\ row[s].status = "provisioning" /\ Rows = {s}
    BY <1>1, OnlyRow DEF Matched, Provisions, Provisioning
  <2>2. worker = s /\ worker' = worker
    BY <2>1 DEF Matched, Deploys, SetupTurn, Looks, Walks, Stops, Drifts, Fails, Forgets, Resyncs,
       Deploying, Rotates, Inserts, Clearing, Records, Errs, SameZone
  <2>. QED BY <2>1, <2>2, OnlyRow
<1>6. Unrouted'
  BY <1>0, <1>5 DEF Served, Unrouted, Tearing
<1>7. Routed'
  <2> SUFFICES ASSUME NEW r \in Setups, row'[r].status \in Live
               PROVE  rules' = {r} \/ \E t \in Removers : Handed(r, t)
    BY <1>0 DEF Routed, Handed, Rows
  <2>1. CASE row[r].status \in Live
    BY <1>5, <2>1 DEF Served, Routed, Rows
  <2>2. CASE row[r].status \notin Live
    <3>1. setup[r].at = "record" \/ row[r].ids
      BY <2>2 DEF Moves, RowMove, SameRow, Inserted, Deleted, Recorded, Failed, Activated
    <3>2. setup[r].at = "record"
      BY <2>2, <3>1 DEF Matched, Unfailed, Moves, RowMove, SameRow, Inserted, Deleted, Recorded,
         Failed, Activated
    <3>3. rules = {r} BY <3>2 DEF Served, Clears
    <3>4. rules' = rules
      BY <1>1, <3>2, OnlyRow DEF Provisioning
    <3>. QED BY <3>3, <3>4
  <2>. QED BY <2>1, <2>2
<1>8. NeverWithout'
  <2> SUFFICES ASSUME rules' = {}
               PROVE  \/ \E q \in Setups : setup'[q].at = "clear"
                      \/ \E t \in Removers : remover[t].at \in {"unscript", "restore", "forward"}
                      \/ \E t \in Removers : remover[t].at = "delete" /\ remover[t].of \in Setups \ Owned
                      \/ \E r \in Setups \ Owned : row'[r].status = "gone"
    BY <1>0 DEF NeverWithout
  <2>1. CASE rules' # rules BY <1>1, <2>1
  <2>4. CASE \/ \E t \in Removers : remover[t].at = "delete" /\ remover[t].of \in Setups \ Owned
             \/ \E r \in Setups \ Owned : row[r].status = "gone"
    BY <2>4, GoneStaysGone
  <2>2. CASE rules' = rules /\ \E t \in Removers : remover[t].at \in {"unscript", "restore", "forward"}
    BY <2>2
  <2>3. CASE rules' = rules /\ \E q \in Setups : setup[q].at = "clear"
    <3>1. PICK q \in Setups : setup[q].at = "clear" BY <2>3
    <3>2. CASE q # s BY <1>0, <3>1, <3>2
    <3>3. CASE q = s BY <1>1, <1>2, <2>3, <3>1, <3>3
    <3>. QED BY <3>2, <3>3
  <2>. QED BY <2>1, <2>2, <2>3, <2>4 DEF Served, NeverWithout
<1>9. Deployed'
  <2>1. CASE rules' # rules BY <1>5, <2>1, CallersAssumption DEF Deployed
  <2>2. CASE rules' = rules
    <3>1. worker' = worker \/ worker' = s
      BY DEF SetupTurn, Looks, Walks, Stops, Drifts, Fails, Forgets, Resyncs,
         Deploying, Rotates, Inserts, Clearing, Records, Errs, SameZone
    <3>. QED BY <2>2, <3>1, CallersAssumption DEF Served, Deployed
  <2>. QED BY <2>1, <2>2
<1>. QED BY <1>3, <1>4, <1>6, <1>7, <1>8, <1>9 DEF Served

LEMMA RemoverServed ==
    ASSUME IntegrationInv, OneByOne, OneByOne', Matched, Matched', Served, Quiet', Moves,
           NEW t \in Removers, RemoverTurn(t)
    PROVE  Served'
<1>. USE DEF Live
<1>0. /\ \A u \in Removers : u # t => remover'[u] = remover[u]
      /\ setup' = setup /\ trouble' = {}
  BY Quiet' DEF RemoverTurn, OthersRest, Quiet
<1>1. Calm' BY <1>0, Quiet' DEF Calm, Quiet
<1>2. \A r \in Setups :
        \/ row'[r] = row[r]
        \/ /\ r \in Rows /\ setup[r].at \notin Provisioning /\ row'[r].status = "gone"
           /\ row'[r].ids = row[r].ids
           /\ remover[t].at \notin Over \cup Tearing
           /\ remover[t].at = "delete" => remover[t].of = r
  BY <1>1, RemoverRows
<1>3. \* What the removal does to the rules, from the step it is at.
      /\ rules' # rules => remover[t].at \in {"unroute", "forward"}
      /\ remover[t].at = "unroute" =>
           /\ remover'[t].at \in {"unscript", "restore"}
           /\ rules' = rules \ {remover[t].of} /\ SameHold(t)
      /\ remover[t].at = "unscript" => remover'[t].at = "restore" /\ SameHold(t)
      /\ remover[t].at = "restore" =>
           /\ remover'[t].at \in {"forward", "delete"} /\ SameHold(t)
           /\ rules = {} => remover'[t].at = "forward" \/ remover[t].of \in Setups \ Owned
      /\ remover[t].at = "forward" =>
           remover'[t].at = "delete" /\ rules' = rules \cup {Forward} /\ SameHold(t)
      /\ remover'[t].at \in {"unscript", "restore", "forward"} =>
           remover[t].at \in {"unroute", "unscript", "restore"}
      /\ worker' # worker => remover[t].at = "unscript"
  BY <1>0 DEF RemoverTurn, Wanders, Takes, Shares, Unroutes, Unscripts, Restores, Forwards,
     Deletes, Empties, SameZone, SameHold, Tearing, Over
<1>4. \* Routes lead to the row it holds, or there is no route.
      remover[t].at = "unroute" => rules' = {}
  <2> SUFFICES ASSUME remover[t].at = "unroute" PROVE rules' = {}
    OBVIOUS
  <2>. DEFINE r == remover[t].of
  <2>1. r \in Rows /\ row[r].status \in Live /\ Rows = {r}
    BY OnlyRow DEF Tearing
  <2>2. \A u \in Removers : ~Handed(r, u)
    BY DEF Handed, OneByOne, OneRemover, Over
  <2>3. rules = {r} BY <2>1, <2>2 DEF Served, Routed
  <2>. QED BY <1>3, <2>3
<1>5. NoFail' BY <1>0, <1>2 DEF Served, NoFail
<1>6. Clears'
  <2>1. CASE rules' = rules BY <1>0, <2>1 DEF Served, Clears
  <2>2. CASE rules' # rules
    <3>1. \A q \in Setups : row[q].status # "provisioning"
      BY <1>3, <2>2, OnlyRow DEF Tearing
    <3>. QED BY <1>0, <3>1 DEF Clears, Matched, Provisions
  <2>. QED BY <2>1, <2>2
<1>7. Unrouted'
  <2> SUFFICES ASSUME NEW u \in Removers, remover'[u].at \in {"unscript", "restore", "forward"}
               PROVE  rules' = {}
    BY DEF Unrouted
  <2>1. CASE u = t BY <1>3, <1>4, <2>1 DEF Served, Unrouted
  <2>2. CASE u # t
    <3>1. remover[u].at \in {"unscript", "restore", "forward"} BY <1>0, <2>2
    <3>2. remover[t].at \in Over BY <2>2, <3>1 DEF OneByOne, OneRemover, Over
    <3>3. rules' = rules BY <1>3, <3>2 DEF Over
    <3>. QED BY <3>1, <3>3 DEF Served, Unrouted
  <2>. QED BY <2>1, <2>2
<1>8. Routed'
  <2> SUFFICES ASSUME NEW r \in Setups, row'[r].status \in Live
               PROVE  rules' = {r} \/ \E u \in Removers : Handed(r, u)'
    BY DEF Routed, Rows, Handed
  <2>1. row'[r] = row[r] /\ r \in Rows /\ row[r].status \in Live BY <1>2 DEF Rows
  <2>2. CASE remover[t].at = "unroute"
    <3>1. remover[t].of = r BY <2>1, <2>2, OnlyRow DEF Tearing
    <3>2. Handed(r, t)' BY <1>3, <2>2, <3>1 DEF Handed, SameHold
    <3>. QED BY <3>2
  <2>3. CASE \E u \in Removers : Handed(r, u)
    <3>1. PICK u \in Removers : Handed(r, u) BY <2>3
    <3>2. CASE u # t BY <1>0, <3>1, <3>2 DEF Handed
    <3>3. CASE u = t
      <4>1. remover[t].at # "delete" \/ row'[r].status = "gone"
        BY <1>0, <2>1, <3>1, <3>3 DEF Handed, RemoverTurn, Wanders, Takes, Shares, Unroutes,
           Unscripts, Restores, Forwards, Deletes, Empties, Writes
      <4>2. Handed(r, t)' BY <1>3, <2>1, <3>1, <3>3, <4>1 DEF Handed, SameHold
      <4>. QED BY <4>2
    <3>. QED BY <3>2, <3>3
  <2>4. CASE remover[t].at # "unroute" /\ ~\E u \in Removers : Handed(r, u)
    <3>1. rules = {r} BY <2>1, <2>4 DEF Served, Routed
    <3>2. CASE rules' = rules BY <3>1, <3>2
    <3>3. CASE remover[t].at = "forward"
      <4>1. remover[t].of = r BY <2>1, <3>3, OnlyRow DEF Tearing
      <4>. QED BY <2>4, <3>3, <4>1 DEF Handed
    <3>. QED BY <1>3, <2>4, <3>2, <3>3
  <2>. QED BY <2>2, <2>3, <2>4
<1>9. NeverWithout'
  <2> SUFFICES ASSUME rules' = {}
               PROVE  \/ \E q \in Setups : setup[q].at = "clear"
                      \/ \E u \in Removers : remover'[u].at \in {"unscript", "restore", "forward"}
                      \/ \E u \in Removers : remover'[u].at = "delete" /\ remover'[u].of \in Setups \ Owned
                      \/ \E r \in Setups \ Owned : row'[r].status = "gone"
    BY <1>0 DEF NeverWithout
  <2>1. CASE remover[t].at = "unroute" BY <1>3, <2>1
  <2>2. CASE remover[t].at # "unroute"
    <3>1. rules = {} BY <1>3, <2>2
    <3>2. CASE \E u \in Removers : remover[u].at \in {"unscript", "restore", "forward"}
      <4>1. PICK u \in Removers : remover[u].at \in {"unscript", "restore", "forward"} BY <3>2
      <4>2. CASE u # t BY <1>0, <4>1, <4>2
      <4>3. CASE u = t
        <5>1. remover[t].at # "forward" BY <1>3
        <5>2. CASE remover[t].at = "unscript" BY <1>3, <5>2
        <5>3. CASE remover[t].at = "restore" BY <1>3, <3>1, <5>3 DEF SameHold
        <5>. QED BY <4>1, <4>3, <5>1, <5>2, <5>3
      <4>. QED BY <4>2, <4>3
    <3>3. CASE \E u \in Removers : remover[u].at = "delete" /\ remover[u].of \in Setups \ Owned
      <4>1. PICK u \in Removers : remover[u].at = "delete" /\ remover[u].of \in Setups \ Owned
        BY <3>3
      <4>2. CASE u # t BY <1>0, <4>1, <4>2
      <4>3. CASE u = t
        <5>1. Deletes(t)
          BY <1>0, <4>1, <4>3 DEF RemoverTurn, Wanders, Takes, Shares, Unroutes, Unscripts, Restores,
             Forwards, Empties, Tearing, Over
        <5>2. row[remover[t].of].status # "absent"
          BY <4>1, <4>3 DEF IntegrationInv, RemovesSettled
        <5>3. row'[remover[t].of].status = "gone"
          BY <4>1, <4>3, <5>1, <5>2 DEF Deletes, Writes, Rows
        <5>. QED BY <4>1, <4>3, <5>3
      <4>. QED BY <4>2, <4>3
    <3>4. CASE \E r \in Setups \ Owned : row[r].status = "gone"
      BY <3>4, GoneStaysGone
    <3>. QED BY <3>1, <3>2, <3>3, <3>4 DEF Served, NeverWithout
  <2>. QED BY <2>1, <2>2
<1>10. Deployed'
  <2>1. CASE worker' = worker BY <1>3, <2>1 DEF Served, Deployed
  <2>2. CASE worker' # worker
    <3>1. rules = {} /\ rules' = rules BY <1>3, <2>2 DEF Served, Unrouted
    <3>. QED BY <3>1 DEF Deployed
  <2>. QED BY <2>1, <2>2
<1>. QED BY <1>5, <1>6, <1>7, <1>8, <1>9, <1>10 DEF Served

LEMMA ScanServed ==
    ASSUME IntegrationInv, Matched, Served, Moves, ScanTurn
    PROVE  Served'
<1>. USE DEF Live
<1>1. \A r \in Setups :
        \/ row'[r] = row[r]
        \/ row[r].status \in Live /\ row'[r].status \in Live
  BY DEF ScanTurn, SameRows, Writes, Rows, Matched, Unfailed
<1>2. setup' = setup /\ remover' = remover /\ worker' = worker /\ rules' = rules
  BY DEF ScanTurn, SameZone
<1>3. NoFail' BY <1>1, <1>2 DEF Served, NoFail
<1>4. Routed' BY <1>1, <1>2 DEF Served, Routed, Handed, Rows
<1>5. NeverWithout' BY <1>2, GoneStaysGone DEF Served, NeverWithout
<1>. QED BY <1>2, <1>3, <1>4, <1>5 DEF Served, Clears, Unrouted, Deployed

-----------------------------------------------------------------------------

LEMMA InitSerial == Init => SerialInv
<1>. SUFFICES ASSUME Init PROVE SerialInv OBVIOUS
<1>. USE DEF Init, Live
<1>1. Rows = {} BY DEF Rows
<1>2. OneByOne
  BY <1>1 DEF OneByOne, OneRow, OneFore, OneRemover, Sees, Resolved, Fore, Resync, Over
<1>3. Matched BY <1>1 DEF Matched, Provisions, Unfailed, Held, Deploys, Trusted, Tearing
<1>4. Served
  BY <1>1 DEF Served, NoFail, Clears, Unrouted, Routed, NeverWithout, Deployed
<1>. QED BY <1>2, <1>3, <1>4, InitInv DEF SerialInv

LEMMA NextSerial == SerialInv /\ [Next]_vars => SerialInv'
<1>. SUFFICES ASSUME SerialInv, [Next]_vars PROVE SerialInv' OBVIOUS
<1>0. IntegrationInv /\ IntegrationInv' /\ IntegrationTypeOK'
  BY NextInv DEF SerialInv, IntegrationInv
<1>1. ASSUME Next, NEW s \in Setups, SetupLook(s) \/ Setup(s) \/ SetupCrash(s)
      PROVE  SerialInv'
  <2>1. SetupTurn(s) /\ Moves BY <1>0, <1>1, SetupTurns, NextMoves
  <2>2. ~crossed' => OneByOne /\ OneByOne'
    BY <1>0, <2>1, SetupOneByOne DEF SerialInv, SetupTurn
  <2>3. (Calm' => Calm) /\ (Quiet' => Quiet) /\ (Quiet => Calm) /\ (Quiet' => Calm')
    BY <2>1, CalmBefore DEF SetupTurn
  <2>4. Calm' => Matched'
    BY <1>0, <2>1, <2>2, <2>3, SetupMatched DEF SerialInv, Calm
  <2>5. Quiet' => Served'
    BY <1>0, <2>1, <2>2, <2>3, <2>4, SetupServed DEF SerialInv, Calm
  <2>. QED BY <1>0, <2>2, <2>4, <2>5 DEF SerialInv
<1>2. ASSUME Next, NEW t \in Removers,
             RemoverBegin(t) \/ Remover(t) \/ DropRows(t) \/ RemoverCrash(t)
      PROVE  SerialInv'
  <2>1. RemoverTurn(t) /\ Moves BY <1>0, <1>2, RemoverTurns, NextMoves
  <2>2. ~crossed' => OneByOne /\ OneByOne'
    BY <1>0, <2>1, RemoverOneByOne DEF SerialInv, RemoverTurn
  <2>3. (Calm' => Calm) /\ (Quiet' => Quiet) /\ (Quiet => Calm) /\ (Quiet' => Calm')
    BY <2>1, CalmBefore DEF RemoverTurn
  <2>4. Calm' => Matched'
    BY <1>0, <2>1, <2>2, <2>3, RemoverMatched DEF SerialInv, Calm
  <2>5. Quiet' => Served'
    BY <1>0, <2>1, <2>2, <2>3, <2>4, RemoverServed DEF SerialInv, Calm
  <2>. QED BY <1>0, <2>2, <2>4, <2>5 DEF SerialInv
<1>3. ASSUME Next, NEW x \in Scans, ScanLook(x) \/ ScanActivate(x)
      PROVE  SerialInv'
  <2>1. ScanTurn /\ Moves BY <1>0, <1>3, ScanTurns, NextMoves
  <2>2. ~crossed' => OneByOne /\ OneByOne'
    BY <1>0, <2>1, ScanOneByOne DEF SerialInv, ScanTurn
  <2>3. (Calm' => Calm) /\ (Quiet' => Quiet) /\ (Quiet => Calm) /\ (Quiet' => Calm')
    BY <2>1, CalmBefore DEF ScanTurn
  <2>4. Calm' => Matched' BY <1>0, <2>1, <2>3, ScanMatched DEF SerialInv
  <2>5. Quiet' => Served' BY <1>0, <2>1, <2>3, ScanServed DEF SerialInv
  <2>. QED BY <1>0, <2>2, <2>4, <2>5 DEF SerialInv
<1>4. CASE UNCHANGED vars
  BY <1>0, <1>4 DEF vars, histories, SerialInv, OneByOne, OneRow, OneFore, OneRemover, Sees,
     Resolved, Rows, Calm, Matched, Provisions, Unfailed, Held, Deploys, Trusted, Quiet, Served,
     NoFail, Clears, Unrouted, Routed, Handed, NeverWithout, Deployed
<1>. QED BY <1>1, <1>2, <1>3, <1>4 DEF Next

LEMMA Serial == Spec => []SerialInv
BY InitSerial, NextSerial, PTL DEF Spec

\* The secret the Worker was last deployed with is the one every live
\* integration knows, whatever Cloudflare refuses and whichever other calls
\* get no answer: as long as that deployment was answered and no two setups
\* or removals crossed, no mail of a connected zone is answered 401.
THEOREM TrustedWorker == Spec => []WorkerIsTrusted
<1>1. SerialInv => WorkerIsTrusted
  BY DEF SerialInv, WorkerIsTrusted, Calm, Matched, Trusted
<1>. QED BY <1>1, Serial, PTL

\* A zone at rest whose calls Cloudflare granted, and of which no two
\* crossed, has a rule for its address unless an integration was removed that
\* another account than the owner of the address had made, and a rule to a
\* Worker only if there is a Worker.
THEOREM RoutedMail == Spec => []MailHasRoute
<1>1. ASSUME SerialInv, AtRest PROVE Served
  BY <1>1 DEF SerialInv, AtRest, Quiet
<1>2. ASSUME SerialInv, AtRest, rules = {}
      PROVE  \E r \in Setups \ Owned : row[r].status = "gone"
  BY <1>1, <1>2 DEF Served, NeverWithout, AtRest, Background, RemoverUnderWay
<1>3. SerialInv => MailHasRoute
  BY <1>1, <1>2 DEF MailHasRoute, Served, Deployed
<1>. QED BY <1>3, Serial, PTL
=============================================================================
