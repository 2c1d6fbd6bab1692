------------------------------- MODULE Services -------------------------------
(* The parts of the server that run beside the build queue.  They share the *)
(* database and the processes, but no row, key or file of these modules, so *)
(* that their steps commute: a behaviour is about one of them, the focus,   *)
(* and the others stay where they began.                                    *)
EXTENDS Registry, SignIn, Accounts, Backups, Restore, PipelineCompiler, GitWebhooks,
        GitProviders, GitConnections, Notifications

VARIABLES focus

storageVars == <<registryVars, backupsVars, restoreVars>>
accessVars == <<signInVars, accountsVars>>
gitVars == <<webhooksVars, gitProvidersVars, gitConnectionsVars>>
buildVars == <<compilerVars, notificationsVars>>
servicesVars == <<storageVars, accessVars, gitVars, buildVars, focus>>

(* Where many initial states are of interest: what is there while another   *)
(* component is the focus.                                                  *)
EmptyDatabase == <<>>
RestoreIdle ==
  /\ db = EmptyDatabase /\ before = EmptyDatabase /\ backup = EmptyDatabase
  /\ wanted = EmptyDatabase /\ acting = NewKey /\ phase = "read" /\ at = 0 /\ written = {}
CompilerIdle == definition = Definition(<<>>) /\ triggered = NotTriggered
ProvidersIdle ==
  /\ there = {} /\ key = <<>> /\ disturbed = {} /\ shrunk = FALSE
  /\ listing = [at |-> "failed"] /\ changes = 0

ServicesInit ==
  /\ RegistryInit /\ SignInInit /\ AccountsInit /\ BackupsInit /\ WebhooksInit
  /\ GitConnectionsInit /\ NotificationsInit
  /\ focus \in {"registry", "backups", "restore", "sign-in", "accounts", "webhooks",
                "providers", "connections", "compiler", "notifications"}
  /\ IF focus = "restore" THEN RestoreInit ELSE RestoreIdle
  /\ IF focus = "compiler" THEN CompilerInit ELSE CompilerIdle
  /\ IF focus = "providers" THEN GitProvidersInit ELSE ProvidersIdle

Only(name, others) == focus = name /\ UNCHANGED <<others, focus>>
Storage(name, others) == Only(name, <<others, accessVars, gitVars, buildVars>>)
Access(name, others) == Only(name, <<others, storageVars, gitVars, buildVars>>)
Git(name, others) == Only(name, <<others, storageVars, accessVars, buildVars>>)
Building(name, others) == Only(name, <<others, storageVars, accessVars, gitVars>>)

ServicesNext ==
  \/ Storage("registry", <<backupsVars, restoreVars>>) /\ RegistryNext
  \/ Storage("backups", <<registryVars, restoreVars>>) /\ BackupsNext
  \/ Storage("restore", <<registryVars, backupsVars>>) /\ RestoreNext
  \/ Access("sign-in", accountsVars) /\ SignInNext
  \/ Access("accounts", signInVars) /\ AccountsNext
  \/ Git("webhooks", <<gitProvidersVars, gitConnectionsVars>>) /\ WebhooksNext
  \/ Git("providers", <<webhooksVars, gitConnectionsVars>>) /\ GitProvidersNext
  \/ Git("connections", <<webhooksVars, gitProvidersVars>>) /\ GitConnectionsNext
  \/ Building("compiler", notificationsVars) /\ CompilerNext
  \/ Building("notifications", compilerVars) /\ NotificationsNext

ServicesSpec == ServicesInit /\ [][ServicesNext]_servicesVars

-----------------------------------------------------------------------------
(* The component that moves keeps its state of its type. *)
ServicesTypeOK ==
  /\ focus = "registry" => RegistryTypeOK
  /\ focus = "backups" => BackupsTypeOK
  /\ focus = "restore" => RestoreTypeOK
  /\ focus = "sign-in" => SignInTypeOK
  /\ focus = "accounts" => AccountsTypeOK
  /\ focus = "webhooks" => WebhooksTypeOK
  /\ focus = "providers" => GitProvidersTypeOK
  /\ focus = "connections" => GitConnectionsTypeOK
  /\ focus = "compiler" => CompilerTypeOK
  /\ focus = "notifications" => NotificationsTypeOK
=============================================================================
