---------------------------- MODULE ServicesProofs ----------------------------
(* What is proved of the services one by one holds of the server that runs   *)
(* them: a behaviour of ServicesSpec is a behaviour of each of them, or one   *)
(* in which it never leaves where it idles.                                   *)
EXTENDS Services, StorageProofs, AccessProofs, GitProofs, RestoreProofs, PipelineProofs

(* A step of the server is, for each service, a step of its own or none.     *)
LEMMA OneServiceMoves ==
  ASSUME [ServicesNext]_servicesVars
  PROVE  /\ [RegistryNext]_registryVars /\ [BackupsNext]_backupsVars
         /\ [SignInNext]_signInVars /\ [AccountsNext]_accountsVars
         /\ [WebhooksNext]_webhooksVars /\ [GitConnectionsNext]_gitConnectionsVars
         /\ [NotificationsNext]_notificationsVars
BY DEF ServicesNext, Storage, Access, Git, Building, Only, servicesVars, storageVars,
       accessVars, gitVars, buildVars

(* The three services of many initial states move while they are the focus,  *)
(* which never changes.                                                       *)
LEMMA FocusMoves ==
  ASSUME [ServicesNext]_servicesVars
  PROVE  /\ focus' = focus
         /\ [RestoreNext]_restoreVars /\ [CompilerNext]_compilerVars
         /\ [GitProvidersNext]_gitProvidersVars
         /\ focus # "restore" => UNCHANGED restoreVars
         /\ focus # "compiler" => UNCHANGED compilerVars
         /\ focus # "providers" => UNCHANGED gitProvidersVars
BY DEF ServicesNext, Storage, Access, Git, Building, Only, servicesVars, storageVars,
       accessVars, gitVars, buildVars

(* Each of the seven services that begin in one state does what its own      *)
(* specification says, whatever the others do.                                *)
THEOREM ServicesImplementEach ==
  ServicesSpec => /\ RegistrySpec /\ BackupsSpec /\ SignInSpec /\ AccountsSpec
                  /\ WebhooksSpec /\ GitConnectionsSpec /\ NotificationsSpec
<1>1. ServicesInit => /\ RegistryInit /\ BackupsInit /\ SignInInit /\ AccountsInit
                      /\ WebhooksInit /\ GitConnectionsInit /\ NotificationsInit
  BY DEF ServicesInit
<1>2. [ServicesNext]_servicesVars =>
        /\ [RegistryNext]_registryVars /\ [BackupsNext]_backupsVars
        /\ [SignInNext]_signInVars /\ [AccountsNext]_accountsVars
        /\ [WebhooksNext]_webhooksVars /\ [GitConnectionsNext]_gitConnectionsVars
        /\ [NotificationsNext]_notificationsVars
  BY OneServiceMoves
<1>. QED
  BY <1>1, <1>2, PTL
     DEF ServicesSpec, RegistrySpec, BackupsSpec, SignInSpec, AccountsSpec, WebhooksSpec,
         GitConnectionsSpec, NotificationsSpec

(* The other three, while they are the focus; else they idle. *)
FocusInv ==
  /\ IF focus = "restore" THEN RestoreInv ELSE RestoreIdle
  /\ IF focus = "compiler" THEN CompilerTypeOK /\ Compiled /\ KnownTypes
     ELSE CompilerIdle
  /\ IF focus = "providers" THEN ListingInv ELSE ProvidersIdle

LEMMA FocusInvariant == ServicesSpec => []FocusInv
<1>1. ServicesInit => FocusInv
  BY RestoreStart, CompilerStart, CompilerStartsTyped, ListingStart DEF ServicesInit, FocusInv
<1>2. FocusInv /\ [ServicesNext]_servicesVars => FocusInv'
  <2>. SUFFICES ASSUME FocusInv, [ServicesNext]_servicesVars PROVE FocusInv'
    OBVIOUS
  <2>1. IF focus' = "restore" THEN RestoreInv' ELSE RestoreIdle'
    <3>1. CASE focus = "restore"
      BY <3>1, FocusMoves, RestoreStep DEF FocusInv
    <3>2. CASE focus # "restore"
      BY <3>2, FocusMoves DEF FocusInv, RestoreIdle, restoreVars, EmptyDatabase
    <3>. QED BY <3>1, <3>2
  <2>2. IF focus' = "compiler" THEN CompilerTypeOK' /\ Compiled' /\ KnownTypes'
       ELSE CompilerIdle'
    <3>1. CASE focus = "compiler"
      BY <3>1, FocusMoves, CompilerIsTyped, CompilerStep DEF FocusInv
    <3>2. CASE focus # "compiler"
      BY <3>2, FocusMoves DEF FocusInv, CompilerIdle, compilerVars
    <3>. QED BY <3>1, <3>2
  <2>3. IF focus' = "providers" THEN ListingInv' ELSE ProvidersIdle'
    <3>1. CASE focus = "providers"
      BY <3>1, FocusMoves, ListingStep DEF FocusInv
    <3>2. CASE focus # "providers"
      BY <3>2, FocusMoves DEF FocusInv, ProvidersIdle, gitProvidersVars
    <3>. QED BY <3>1, <3>2
  <2>. QED BY <2>1, <2>2, <2>3 DEF FocusInv
<1>. QED BY <1>1, <1>2, PTL DEF ServicesSpec

-----------------------------------------------------------------------------
(* A service that idles breaks no promise. *)
LEMMA IdleIsLegal ==
  /\ RestoreIdle => EveryStatementIsLegal /\ NotLockedOut /\ RestoredIsTheBackup
  /\ CompilerIdle => LabelsAreDistinct /\ ValidStepIsRunnable
  /\ ProvidersIdle => UntouchedIsListed
<1>1. ASSUME RestoreIdle
      PROVE  EveryStatementIsLegal /\ NotLockedOut /\ RestoredIsTheBackup
  <2>1. Here(db) = {} /\ ~Restored
    BY <1>1 DEF RestoreIdle, EmptyDatabase, Here, Restored, Passed
  <2>. QED BY <2>1 DEF EveryStatementIsLegal, Sound, UniqueValues, ForeignKeys, NotLockedOut,
                       RestoredIsTheBackup
<1>2. CompilerIdle => LabelsAreDistinct /\ ValidStepIsRunnable
  <2>1. CompilerIdle => triggered.status # "pending"
    BY DEF CompilerIdle, NotTriggered, Build
  <2>. QED BY <2>1 DEF LabelsAreDistinct, ValidStepIsRunnable
<1>3. ProvidersIdle => UntouchedIsListed
  BY DEF ProvidersIdle, UntouchedIsListed
<1>. QED BY <1>1, <1>2, <1>3

(* For any sizes of any of them, the service that moves keeps its state of   *)
(* its type: rows refer to rows, counts stay within their limits, and what   *)
(* goes together is there together.                                          *)
THEOREM ServicesTypeCorrect == ServicesSpec => []ServicesTypeOK
<1>1. FocusInv => /\ focus = "restore" => RestoreTypeOK
                  /\ focus = "compiler" => CompilerTypeOK
                  /\ focus = "providers" => GitProvidersTypeOK
  BY RestoreIsTyped DEF FocusInv, ListingInv
<1>2. /\ RegistryTypeOK /\ BackupsTypeOK /\ SignInTypeOK /\ AccountsTypeOK
      /\ WebhooksTypeOK /\ GitConnectionsTypeOK /\ NotificationsTypeOK /\ FocusInv
      => ServicesTypeOK
  BY <1>1 DEF ServicesTypeOK
<1>. QED
  BY <1>2, FocusInvariant, ServicesImplementEach, RegistryTypeCorrect, BackupsTypeCorrect,
     SignInTypeCorrect, AccountsTypeCorrect, WebhooksTypeCorrect, ConnectionsTypeCorrect,
     NewsTypeCorrect, PTL

(* On the server as a whole blobs are what their digests say, backups are    *)
(* made one at a time, each slot's once, a restore is quiet, legal at every  *)
(* statement and complete, locks nobody out and can be undone.               *)
THEOREM StorageStands ==
  ServicesSpec => /\ [](StoredBlobIsItsDigest /\ OneAtATime /\ SlotIsServedOnce)
                  /\ [](RestoreCanBeUndone /\ EveryStatementIsLegal /\ NotLockedOut)
                  /\ []RestoredIsTheBackup /\ QuietRestore
<1>1. FocusInv => EveryStatementIsLegal /\ NotLockedOut /\ RestoredIsTheBackup
  BY IdleIsLegal, InvariantIsLegal, EndsWithTheAdministrator, EndsAsTheBackup DEF FocusInv
<1>. QED
  BY <1>1, FocusInvariant, ServicesImplementEach, BlobsAlways, OneAtATimeAlways, SlotAlwaysOnce,
     RestoreAlwaysUndone, RestoreAlwaysQuiet, PTL

(* So do the two ways into it: a ticket buys one session, a code works once, *)
(* tries are bounded, flag and role agree, and an administrator remains.     *)
THEOREM AccessStands ==
  ServicesSpec => /\ [](TicketBuysOneSession /\ CodeWorksOnce /\ TriesAreBounded)
                  /\ [](AdministratorHasBoth /\ AnAdministratorRemains)
BY ServicesImplementEach, TicketBuysOne, CodeAlwaysOnce, TriesAlwaysBounded,
   AdministratorHasBothAlways, AnAdministratorAlwaysRemains, PTL

(* And what it exchanges with Git: a delivery that is sent again does        *)
(* nothing, one that is refused as known was done, a listing has what nobody *)
(* touched, and a verdict is about the credential it stands beside.          *)
THEOREM GitStands ==
  ServicesSpec => /\ [](RedeliveryIsQuiet /\ DuplicateWasDone)
                  /\ [](UntouchedIsListed /\ VerdictIsOnCredential)
<1>1. FocusInv => UntouchedIsListed
  BY IdleIsLegal DEF FocusInv, ListingInv
<1>. QED
  BY <1>1, FocusInvariant, ServicesImplementEach, RedeliveryAlwaysQuiet, DuplicateAlwaysDone,
     VerdictAlwaysOnCredential, PTL

(* And what becomes of a pipeline's YAML: labels that differ, steps the      *)
(* agent accepts, and notifications that are true, single and in order.      *)
THEOREM PipelinesStand ==
  ServicesSpec => /\ [](LabelsAreDistinct /\ ValidStepIsRunnable)
                  /\ [](FixedWasBroken /\ ToldThroughOneEvent) /\ NewsInOrder
<1>1. FocusInv => LabelsAreDistinct /\ ValidStepIsRunnable
  BY IdleIsLegal, CompiledIsRunnable, CompiledIsDistinct DEF FocusInv
<1>. QED
  BY <1>1, FocusInvariant, ServicesImplementEach, FixedAlwaysBroken, AlwaysThroughOneEvent,
     NewsAlwaysInOrder, PTL
=============================================================================
