--------------------------- MODULE Configuration ---------------------------
(***************************************************************************)
(* The Configuration Center of the Admin (internal/admin/configuration.go, *)
(* configuration_runtime.go) beside the pages that save a few settings of  *)
(* their own: general settings, onboarding, notifications.                 *)
(*                                                                         *)
(* Saving a configuration reads the whole settings table, replaces it in   *)
(* one transaction together with the secret of the default proxy, and then *)
(* applies it step by step to what runs: the Compose environment, the      *)
(* files of the accounts and their containers, the collector.  When a step *)
(* fails the old table is written back and applied again.  The general,    *)
(* onboarding and webhook pages write their rows without the lock.         *)
(*                                                                         *)
(* One setting stands for each way a setting is applied and written.  A    *)
(* value is 1, the default (and FALSE of a switch), or 2.                  *)
(*                                                                         *)
(* A table written by this version is assumed.  Reading one of an older    *)
(* version also turns an "observe" failover mode into "off", an open       *)
(* listen address into the loopback one and a proxy row into the secret    *)
(* (configuration.go:431-453), and stores the result without applying it.  *)
(***************************************************************************)
EXTENDS Integers, FiniteSets, Sequences, SequencesExt

CONSTANTS
    ConfAccounts,    \* the accounts, a sequence in the order of their ids
    Requests,        \* what an operator may send: key -> value
    MaxSaves,        \* bound: saves of the Configuration Center
    MaxPageSaves,    \* bound: saves of the other pages, enabling accounts
    MaxConfFaults    \* bound: failing steps and crashes

Unset == 0
ConfValue == {1, 2}

\* configurationDefinitions: the keys of the catalog with how each is applied.
\* "proxy" is kept as a secret, the other keys are rows of the table.
ApplyMode ==
    [name |-> "live", notify |-> "live", retry |-> "accounts",
     proxy_on |-> "accounts", proxy |-> "accounts", zone |-> "collector",
     listen |-> "deployment", unlimited |-> "quota", port |-> "future"]

CatalogKey == DOMAIN ApplyMode

\* The rows: the catalog, the row of the onboarding page and one retired key,
\* the time zone of the quotas, that became the zone of the system.
RowKey == (CatalogKey \ {"proxy"}) \cup {"skipped", "old_zone"}

ConfAccount == Range(ConfAccounts)

\* What a field of a request may hold: nothing, a value, 2 written another way
\* (spaces, capitals, a number as text), and what is no value at all.
RawValue == {Unset, 1, 2, 12, 99}

ASSUME ConfAssumption ==
    /\ \A r \in Requests : /\ DOMAIN r \subseteq CatalogKey
                           /\ \A k \in DOMAIN r : r[k] \in RawValue
    /\ {MaxSaves, MaxPageSaves, MaxConfFaults} \subseteq Nat
    /\ ConfAccounts \in Seq(ConfAccount)
    /\ {"project", "render", "collector"} \cap ConfAccount = {}

VARIABLES
    settings,      \* the settings table: RowKey -> value or Unset
    proxySecret,   \* encrypted_secrets: cpa_default_proxy_url
    webhook,       \* encrypted_secrets has wecom_webhook
    save,          \* the save that holds configurationLock, or NoSave
    clearing,      \* a webhook is deleted and notifications not yet disabled
    listenEnv,     \* BUSINESS_CPA_LISTEN_ADDRESS of state/compose.env
    rendered,      \* the configuration files of the accounts
    running,       \* account -> the configuration its container started with
    groupEnabled,  \* the accounts that are enabled
    collecting,    \* the settings the collector started with
    stale,         \* apply modes whose last save was cut off (ghost)
    asked,         \* RowKey -> the value last saved for it on purpose (ghost)
    confCount      \* the bounds used up: saves, page saves, faults

confVars == <<settings, proxySecret, webhook, save, clearing, listenEnv,
              rendered, running, groupEnabled, collecting, stale, asked,
              confCount>>

confStore == <<settings, proxySecret, webhook>>
confRuntime == <<listenEnv, rendered, running, groupEnabled, collecting>>

-----------------------------------------------------------------------------
NoSave == [pc |-> "none"]

\* normalizeConfigurationValue: the one form in which a value is compared and
\* stored; Unset for a field that is refused.
NormalForm(raw) == IF raw = 12 THEN 2 ELSE IF raw \in ConfValue THEN raw ELSE Unset

\* sitetime.Name: the zone, else the retired key, else the default.
ZoneName(s) ==
    IF s.zone # Unset THEN s.zone
    ELSE IF s.old_zone # Unset THEN s.old_zone ELSE 1

\* sitetime.Migrate, and the removal of retired keys when a table is read.
Migrated(s) ==
    IF s.old_zone = Unset THEN s
    ELSE [s EXCEPT !.zone = ZoneName(s), !.old_zone = Unset]

\* The effective configuration: a stored row, else its default; the address
\* of the proxy is the secret and has no default.
Effective(s, secret) ==
    [k \in CatalogKey |->
        IF k = "proxy" THEN secret
        ELSE IF s[k] = Unset THEN 1 ELSE s[k]]

ValidConfiguration(values) == values.proxy_on = 2 => values.proxy # Unset

\* What Render writes into the files of the accounts.
AccountFiles(s, secret) ==
    [k \in {"retry", "proxy_on", "proxy"} |-> Effective(s, secret)[k]]

\* What the collector reads when it starts.
CollectorSettings(s) ==
    [zone |-> ZoneName(s), unlimited |-> Effective(s, Unset).unlimited]

Count(c) == /\ confCount[c] > 0
            /\ confCount' = [confCount EXCEPT ![c] = @ - 1]

-----------------------------------------------------------------------------
(* The save of the Configuration Center.                                   *)

\* An empty proxy field means that the proxy is to stay as it is: the page shows
\* the secret masked.
WithoutBlankProxy(request) ==
    [k \in {f \in DOMAIN request : f = "proxy" => request[f] # Unset} |->
        request[k]]

\* updateConfiguration, or readConfiguration with an empty request, takes the
\* lock and reads the table.
UpdateConfiguration(request) ==
    /\ save = NoSave
    /\ Count("saves")
    /\ save' = [pc |-> "read", request |-> WithoutBlankProxy(request),
                stored |-> settings, proxy |-> proxySecret,
                changed |-> {}, todo |-> <<>>]
    /\ UNCHANGED <<confStore, confRuntime, clearing, stale, asked>>

\* currentConfiguration writes the table back when reading has cleaned it.
CurrentConfiguration ==
    LET cleaned == Migrated(save.stored) IN
    /\ save.pc = "read"
    /\ save' = [save EXCEPT !.pc = "check", !.stored = cleaned]
    /\ settings' = IF cleaned = save.stored THEN settings ELSE cleaned
    /\ asked' = [asked EXCEPT !.zone = settings'.zone,
                              !.old_zone = settings'.old_zone]
    /\ UNCHANGED <<proxySecret, webhook, clearing, confRuntime, stale,
                   confCount>>

\* The configuration that the request asks for.
Wanted ==
    [k \in CatalogKey |->
        IF k \in DOMAIN save.request THEN NormalForm(save.request[k])
        ELSE Effective(save.stored, save.proxy)[k]]

\* changedConfigurationKeys: a value that differs, or a zone that is asked for
\* and was never stored.
ChangedKeys ==
    {k \in CatalogKey :
        \/ Wanted[k] # Effective(save.stored, save.proxy)[k]
        \/ /\ k = "zone" /\ k \in DOMAIN save.request
           /\ save.stored.zone = Unset}

RequestAccepted ==
    /\ \A k \in DOMAIN save.request : NormalForm(save.request[k]) # Unset
    /\ ValidConfiguration(Wanted)
    /\ Wanted.notify = 2 => webhook
    /\ ChangedKeys # {}

\* A request that is refused or changes nothing ends here.
CheckConfiguration ==
    /\ save.pc = "check"
    /\ save' = IF RequestAccepted
               THEN [save EXCEPT !.pc = "replace", !.changed = ChangedKeys]
               ELSE NoSave
    /\ UNCHANGED <<confStore, clearing, confRuntime, stale, asked, confCount>>

\* Reading or replacing the table fails: the request ends with nothing changed.
SaveFails ==
    /\ save.pc \in {"read", "check", "replace"}
    /\ Count("faults")
    /\ save' = NoSave
    /\ UNCHANGED <<confStore, clearing, confRuntime, stale, asked>>

Modes == {ApplyMode[k] : k \in save.changed}

\* ApplyConfiguration's steps, in its order; the loop over the accounts passes by
\* those that are not enabled.
ApplySteps(modes) ==
    (IF "deployment" \in modes THEN <<"project">> ELSE <<>>)
    \o (IF "accounts" \in modes
        THEN <<"render">> \o ConfAccounts ELSE <<>>)
    \o (IF modes \cap {"collector", "quota"} # {}
        THEN <<"collector">> ELSE <<>>)

\* Mutant of ReplaceSettingsAndSecret: the secret is left for later.
ReplaceSettingsFirst(table, secret) ==
    settings' = table /\ proxySecret' = proxySecret

\* One transaction replaces every row and the secret.
ReplaceSettingsAndSecret(table, secret) ==
    settings' = table /\ proxySecret' = secret

ReplaceConfiguration ==
    LET rows == save.changed \ {"proxy"} IN
    /\ save.pc = "replace"
    /\ ReplaceSettingsAndSecret(
           [k \in RowKey |-> IF k \in rows THEN Wanted[k] ELSE save.stored[k]],
           Wanted.proxy)
    /\ save' = [save EXCEPT !.pc = "apply", !.todo = ApplySteps(Modes)]
    /\ asked' = [k \in RowKey |-> IF k \in rows THEN Wanted[k] ELSE asked[k]]
    /\ UNCHANGED <<webhook, clearing, confRuntime, stale, confCount>>

Applying == save.pc \in {"apply", "reapply"}

\* The configuration an attempt or its rollback is to bring about.
Aim == IF save.pc = "apply" THEN Wanted
       ELSE Effective(save.stored, save.proxy)

\* One step.  The environment is written from the change; Render, and the
\* collector when it starts again, read the store.
ApplyConfigurationStep ==
    /\ Applying /\ save.todo # <<>>
    /\ LET step == Head(save.todo) IN
       /\ listenEnv' = IF step = "project" THEN Aim.listen ELSE listenEnv
       /\ rendered' = IF step = "render"
                      THEN AccountFiles(settings, proxySecret) ELSE rendered
       /\ running' = [a \in ConfAccount |->
                         IF step = a /\ a \in groupEnabled
                         THEN rendered ELSE running[a]]
       /\ collecting' = IF step = "collector"
                        THEN CollectorSettings(settings) ELSE collecting
    /\ save' = [save EXCEPT !.todo = Tail(@)]
    /\ UNCHANGED <<confStore, clearing, groupEnabled, stale, asked, confCount>>

\* Every step is done: a rollback ends like a save, with another answer.
SaveReturns ==
    /\ Applying /\ save.todo = <<>>
    /\ stale' = IF save.pc = "reapply" /\ save.storeKept
                THEN stale \cup Modes ELSE stale \ Modes
    /\ save' = NoSave
    /\ UNCHANGED <<confStore, clearing, confRuntime, asked, confCount>>

\* A step fails: a first attempt turns to its rollback, a rollback is given up.
ApplyFails ==
    /\ Applying /\ save.todo # <<>>
    /\ Head(save.todo) \notin ConfAccount \ groupEnabled
    /\ Count("faults")
    /\ IF save.pc = "apply"
       THEN save' = [save EXCEPT !.pc = "restore"] /\ UNCHANGED stale
       ELSE save' = NoSave /\ stale' = stale \cup Modes
    /\ UNCHANGED <<confStore, clearing, confRuntime, asked>>

\* Mutant of Reapplied: only the table is restored.
ReappliedNothing == <<>>

Reapplied == ApplySteps(Modes)

\* The rollback writes the table and the secret as they were read, and goes on
\* to apply them whether or not that worked.
RestoreConfiguration ==
    /\ save.pc = "restore"
    /\ \/ /\ ReplaceSettingsAndSecret(save.stored, save.proxy)
          /\ asked' = [k \in RowKey |->
                          IF k \in save.changed \ {"proxy"}
                          THEN save.stored[k] ELSE asked[k]]
          /\ save' = [pc |-> "reapply", request |-> save.request,
                      stored |-> save.stored, proxy |-> save.proxy,
                      changed |-> save.changed, todo |-> Reapplied,
                      storeKept |-> FALSE]
          /\ UNCHANGED confCount
       \/ /\ Count("faults")
          /\ save' = [pc |-> "reapply", request |-> save.request,
                      stored |-> save.stored, proxy |-> save.proxy,
                      changed |-> save.changed, todo |-> Reapplied,
                      storeKept |-> TRUE]
          /\ UNCHANGED <<settings, proxySecret, asked>>
    /\ UNCHANGED <<webhook, clearing, confRuntime, stale>>

\* The Admin dies and starts again: nothing remembers the save, and the files
\* of the accounts are rendered once more.
AdminRestarts ==
    /\ Count("faults")
    /\ rendered' = AccountFiles(settings, proxySecret)
    /\ stale' = IF save.pc \in {"apply", "restore", "reapply"}
                THEN stale \cup Modes ELSE stale
    /\ save' = NoSave /\ clearing' = FALSE
    /\ UNCHANGED <<confStore, listenEnv, running, groupEnabled, collecting,
                   asked>>

-----------------------------------------------------------------------------
(* The other pages.                                                        *)

\* UpdateSettings: only the rows that are named.
UpdateSettings(k, v) ==
    /\ settings' = [settings EXCEPT ![k] = v]
    /\ asked' = [asked EXCEPT ![k] = v]

SaveRow(k) ==
    /\ Count("pages")
    /\ \E v \in ConfValue : v # settings[k] /\ UpdateSettings(k, v)
    /\ UNCHANGED <<proxySecret, webhook, save, clearing, confRuntime, stale>>

\* updateGeneralSettings and updateOnboardingPreferences do not take the lock.
SaveGeneralSettings == SaveRow("name")
SaveOnboarding == SaveRow("skipped")

\* updateNotificationSettings holds the lock and asks for a webhook.
SaveNotificationSettings ==
    /\ save = NoSave
    /\ Count("pages")
    /\ \E v \in ConfValue : (v = 2 => webhook) /\ UpdateSettings("notify", v)
    /\ UNCHANGED <<proxySecret, webhook, save, clearing, confRuntime, stale>>

\* updateNotificationWebhook.
SaveWebhook ==
    /\ ~webhook
    /\ Count("pages")
    /\ webhook' = TRUE
    /\ UNCHANGED <<settings, proxySecret, save, clearing, confRuntime, stale,
                   asked>>

\* clearNotificationWebhook deletes the secret first and disables then.
ClearWebhook ==
    /\ webhook /\ ~clearing
    /\ Count("pages")
    /\ webhook' = FALSE /\ clearing' = TRUE
    /\ UNCHANGED <<settings, proxySecret, save, confRuntime, stale, asked>>

DisableNotifications ==
    /\ clearing /\ clearing' = FALSE
    /\ UpdateSettings("notify", 1)
    /\ UNCHANGED <<proxySecret, webhook, save, confRuntime, stale, confCount>>

\* An account is enabled or disabled under the same lock: the files are rendered
\* and a container that is started loads them (AccountLifecycle has the steps).
ToggleAccount(a) ==
    /\ save = NoSave
    /\ Count("pages")
    /\ rendered' = AccountFiles(settings, proxySecret)
    /\ IF a \in groupEnabled
       THEN groupEnabled' = groupEnabled \ {a} /\ UNCHANGED running
       ELSE /\ groupEnabled' = groupEnabled \cup {a}
            /\ running' = [running EXCEPT ![a] = rendered']
    /\ UNCHANGED <<confStore, save, clearing, listenEnv, collecting, stale,
                   asked>>

-----------------------------------------------------------------------------
ConfInit ==
    /\ settings \in [RowKey -> {Unset}]
                    \cup {[k \in RowKey |->
                              IF k = "old_zone" THEN 2 ELSE Unset]}
    /\ proxySecret = Unset
    /\ webhook \in BOOLEAN
    /\ save = NoSave /\ clearing = FALSE
    /\ listenEnv = 1
    /\ rendered = AccountFiles(settings, proxySecret)
    /\ running = [a \in ConfAccount |-> rendered]
    /\ groupEnabled = ConfAccount
    /\ collecting = CollectorSettings(settings)
    /\ stale = {} /\ asked = settings
    /\ confCount = [saves |-> MaxSaves, pages |-> MaxPageSaves,
                    faults |-> MaxConfFaults]

ConfNext ==
    \/ \E r \in Requests : UpdateConfiguration(r)
    \/ CurrentConfiguration
    \/ CheckConfiguration
    \/ SaveFails
    \/ ReplaceConfiguration
    \/ ApplyConfigurationStep
    \/ SaveReturns
    \/ ApplyFails
    \/ RestoreConfiguration
    \/ AdminRestarts
    \/ SaveGeneralSettings
    \/ SaveOnboarding
    \/ SaveNotificationSettings
    \/ SaveWebhook
    \/ ClearWebhook
    \/ DisableNotifications
    \/ \E a \in ConfAccount : ToggleAccount(a)

ConfSpec == ConfInit /\ [][ConfNext]_confVars

-----------------------------------------------------------------------------
\* What runs is what is stored: while no save is under way, every group of
\* settings whose last save was not cut off (by a crash, or by a rollback that
\* failed too) is in force in the environment, in the files and containers of
\* every enabled account and in the collector.  A save that fails at any of its
\* steps, a later save that repairs an earlier one, and accounts enabled in
\* between all keep it.
RuntimeAsStored ==
    save = NoSave =>
        /\ "deployment" \notin stale =>
               listenEnv = Effective(settings, proxySecret).listen
        /\ "accounts" \notin stale =>
               \A a \in groupEnabled :
                   running[a] = AccountFiles(settings, proxySecret)
        /\ stale \cap {"collector", "quota"} = {} =>
               collecting = CollectorSettings(settings)

\* The default proxy is never switched on without an address, neither in the
\* store nor in a file or a container, at any moment of a save, a rollback or
\* a crash (ReplaceSettingsAndSecret's promise).
ProxyHasAddress ==
    \A values \in {Effective(settings, proxySecret), rendered}
                  \cup {running[a] : a \in ConfAccount} :
        ValidConfiguration(values)

\* A page's save of its own rows is not lost: every row holds the value that was
\* last saved for it on purpose.  (UpdateSettings' promise; the Configuration
\* Center, which replaces the table it has read, does not keep it.)
PageSavesKept == \A k \in RowKey : settings[k] = asked[k]
=============================================================================
