---------------------------- MODULE ProviderStore ----------------------------
(***************************************************************************)
(* What the interactive command line remembers of a provider: its profile  *)
(* in the providers file, its key in the operating system's keychain, and  *)
(* in the configuration file which provider is active and the default      *)
(* model of each.  TuiController.persistProvider writes the key, then the  *)
(* profile, and takes the key back when the profile cannot be written;     *)
(* PersistentProviderRegistry serialises its read-modify-write cycles; the *)
(* controller's queue of configuration writes serialises its own.          *)
(*                                                                         *)
(* A model is known by the provider whose catalog it was chosen from.      *)
(***************************************************************************)
EXTENDS Naturals, Sequences, FiniteSets

CONSTANTS
  Compatible,    \* ids of compatible providers: each needs a profile
  BuiltIn,       \* "openrouter": always listed, never in the file
  EnvNames,      \* names of environment variables
  EnvOf,         \* EnvOf[p]: the variable named by p's form
  Environment,   \* Environment[e]: the value of the variable, NoKey when unset
  Secrets,       \* keys typed into the form
  OldKey,        \* the key an earlier release stored under a variable's name
  NoKey, Unknown, Unset,
  Calls,         \* persistProvider and removeCustomProvider calls in flight
  MaxFailures,   \* bound: writes of a file, and uses of the keychain, that fail
  MaxCalls,      \* bound: calls started
  MaxChoices     \* bound: model choices, session loads and restarts together

All  == Compatible \cup {BuiltIn}

\* The entry of a provider is "provider/" and its id, which is no name of a variable
\* (providers.ts:55, controller.ts:502); no form may take the id of the built-in provider.
KeysApart ==
  /\ All \cap EnvNames = {} /\ BuiltIn \notin Compatible
  /\ Unset \notin All \cup EnvNames
  /\ NoKey \notin Secrets \cup {OldKey} /\ Unknown \notin Secrets \cup {NoKey}
  /\ EnvOf \in [All -> EnvNames]

ASSUME StoreAssumption == KeysApart

Refs == All \cup EnvNames      \* keychain entries: provider-scoped, and legacy ones by variable
NoProfile == [env |-> Unset]
Profile == [env : EnvNames] \cup {NoProfile}
Formats == {"ok", "newer", "broken"}

VARIABLES
  profiles,      \* providers.json: [Compatible -> Profile]
  keys,          \* the keychain: [Refs -> Secrets \cup {OldKey, NoKey}]
  locked,        \* the keychain cannot be used in this process
  config,        \* app.json: [active, model]
  format,        \* how each of the two files parses
  calls, mutations,    \* #mutationTail: the registry's read-modify-write cycles, in order
  configQueue,   \* #configSaveQueue
  connected,     \* the provider the interface is connected to
  newest,        \* the call of the newest connection
  owed,          \* history: the key the last undisturbed call on p reported as stored
  failures, started, choices

diskVars == <<profiles, keys, config, format>>
storeVars == <<profiles, keys, locked, config, format, calls, mutations, configQueue, connected, newest,
          owed, failures, started, choices>>

Idle == [op |-> "none", p |-> Unset, secret |-> NoKey, pc |-> "idle", previous |-> NoKey,
         loaded |-> [p \in Compatible |-> NoProfile], ok |-> FALSE, alone |-> TRUE, unread |-> FALSE]
NoConfig == [active |-> Unset, model |-> [p \in All |-> Unset]]

Active(c) == calls[c].pc # "idle"
Quiet(p) == \A c \in Calls : Active(c) => calls[c].p # p
Step(c, pc) == [calls EXCEPT ![c].pc = pc]
MayFail == failures < MaxFailures

----------------------------------------------------------------------------
(* FileConfigStore.load: a file of a later version reads as the defaults; one that is not an *)
(* object makes every load throw                                                             *)

LoadedProfiles == IF format.profiles = "newer" THEN [p \in Compatible |-> NoProfile] ELSE profiles
LoadedConfig == IF format.config = "newer" THEN NoConfig ELSE config
ReadableProfiles == format.profiles # "broken"
ReadableConfig == format.config # "broken"

\* listProviders and getProvider: the built-in one first, then the file's.
EnvRefIn(file, p) == IF p = BuiltIn THEN EnvOf[p] ELSE file[p].env
ListedIn(file, p) == IF p = BuiltIn THEN TRUE ELSE file[p] # NoProfile
Listed(p) == ReadableProfiles /\ ListedIn(LoadedProfiles, p)

ReadKey(ref) == IF locked THEN NoKey ELSE keys[ref]

\* resolveCredential: the provider's own entry, the legacy entry, then the environment.
Resolve(p) ==
  LET env == EnvRefIn(LoadedProfiles, p)
  IN  IF ~Listed(p) THEN NoKey
      ELSE IF ReadKey(p) # NoKey THEN ReadKey(p)
      ELSE IF ReadKey(env) # NoKey THEN ReadKey(env) ELSE Environment[env]

----------------------------------------------------------------------------
(* A fresh installation, or one of an earlier release, whose keys are named by variable *)

StoreInit ==
  /\ profiles \in {[p \in Compatible |-> NoProfile], [p \in Compatible |-> [env |-> EnvOf[p]]]}
  /\ keys \in {[r \in Refs |-> NoKey],
               [r \in Refs |-> IF r \in EnvNames THEN OldKey ELSE NoKey]}
  /\ locked \in BOOLEAN
  /\ config = NoConfig
  /\ \E f \in Formats : format = [profiles |-> f, config |-> f]
  /\ calls = [c \in Calls |-> Idle] /\ mutations = <<>> /\ configQueue = <<>>
  /\ connected = Unset /\ newest = Unset
  /\ owed = [p \in All |-> Unknown]
  /\ failures = 0 /\ started = 0 /\ choices = 0

----------------------------------------------------------------------------
(* persistProvider.  Two fields of a call are history: no other call on its provider overlapped it *)
(* ("alone"), and it missed the key that was there ("unread")                                      *)

\* A call begins; whatever overlaps it on the same provider is marked.
Begin(c, call) ==
  /\ ~Active(c) /\ started < MaxCalls
  /\ started' = started + 1
  /\ calls' = [d \in Calls |->
                 IF d = c THEN [call EXCEPT !.alone = Quiet(call.p)]
                 ELSE IF Active(d) /\ calls[d].p = call.p THEN [calls[d] EXCEPT !.alone = FALSE]
                 ELSE calls[d]]

\* connect with a key typed into the form.
ConnectWithKey(c, p, s) ==
  /\ Begin(c, [Idle EXCEPT !.op = "persist", !.p = p, !.secret = s, !.pc = "read"])
  /\ connected' = p /\ newest' = c
  /\ UNCHANGED <<diskVars, locked, mutations, configQueue, owed, failures, choices>>

\* connect with a blank key: a known profile is used as it is, or its new endpoint is saved without
\* a key (metadataOnlyProfileUpdate, or a provider that was never saved).
ConnectBlank(c, p) ==
  \/ /\ Listed(p) /\ choices < MaxChoices /\ choices' = choices + 1
     /\ connected' = p /\ newest' = Unset
     /\ configQueue' = Append(configQueue, [provider |-> p, model |-> Unset])
     /\ UNCHANGED <<diskVars, locked, calls, mutations, owed, failures, started>>
  \/ /\ p \in Compatible
     /\ Begin(c, [Idle EXCEPT !.op = "persist", !.p = p, !.pc = "queued"])
     /\ connected' = p /\ newest' = c
     /\ mutations' = Append(mutations, c)
     /\ UNCHANGED <<diskVars, locked, configQueue, owed, failures, choices>>

\* credentialStore.get: what a roll back would restore.
ReadPrevious(c) ==
  /\ calls[c].pc = "read"
  /\ calls' = [calls EXCEPT ![c].previous = ReadKey(calls[c].p), ![c].pc = "set"]
  /\ UNCHANGED <<diskVars, locked, mutations, configQueue, connected, newest, owed, failures,
                 started, choices>>

\* The read fails: get swallows the error and answers as if there were no key.
ReadPreviousFails(c) ==
  /\ calls[c].pc = "read" /\ ~locked /\ MayFail
  /\ failures' = failures + 1
  /\ calls' = [calls EXCEPT ![c].previous = NoKey, ![c].pc = "set",
                            ![c].unread = (keys[calls[c].p] # NoKey)]
  /\ UNCHANGED <<diskVars, locked, mutations, configQueue, connected, newest, owed, started, choices>>

\* credentialStore.set: the key comes before the profile; a keychain that refuses ends the call.
SetKey(c) ==
  /\ calls[c].pc = "set" /\ ~locked
  /\ keys' = [keys EXCEPT ![calls[c].p] = calls[c].secret]
  /\ IF calls[c].p = BuiltIn
     THEN calls' = [calls EXCEPT ![c].pc = "done", ![c].ok = TRUE] /\ UNCHANGED mutations
     ELSE calls' = Step(c, "queued") /\ mutations' = Append(mutations, c)
  /\ UNCHANGED <<profiles, locked, config, format, configQueue, connected, newest, owed, failures,
                 started, choices>>

SetKeyFails(c) ==
  /\ calls[c].pc = "set" /\ (locked \/ MayFail)
  /\ calls' = Step(c, "done")
  /\ failures' = IF locked THEN failures ELSE failures + 1
  /\ UNCHANGED <<diskVars, locked, mutations, configQueue, connected, newest, owed, started, choices>>

\* The profile could not be written: the key goes back to what it was found to be, which removes it
\* when none was found.
\* Mutant: the entry is always removed.
RollbackBug(c) ==
  /\ calls[c].pc = "rollback"
  /\ calls' = [calls EXCEPT ![c].pc = "done", ![c].alone = @ /\ ~calls[c].unread]
  /\ keys' = [keys EXCEPT ![calls[c].p] = NoKey]
  /\ UNCHANGED <<profiles, locked, config, format, mutations, configQueue, connected, newest, owed,
                 failures, started, choices>>

Rollback(c) ==
  /\ calls[c].pc = "rollback"
  /\ calls' = [calls EXCEPT ![c].pc = "done", ![c].alone = @ /\ ~calls[c].unread]
  /\ keys' = [keys EXCEPT ![calls[c].p] = calls[c].previous]
  /\ UNCHANGED <<profiles, locked, config, format, mutations, configQueue, connected, newest, owed,
                 failures, started, choices>>

\* The roll back itself fails, which is not reported.
RollbackFails(c) ==
  /\ calls[c].pc = "rollback" /\ MayFail
  /\ failures' = failures + 1
  /\ calls' = [calls EXCEPT ![c].pc = "done", ![c].alone = FALSE]
  /\ UNCHANGED <<diskVars, locked, mutations, configQueue, connected, newest, owed, started, choices>>

----------------------------------------------------------------------------
(* The registry's mutations: one at a time, each from its load to its last write *)

OwnTurn(c) == mutations # <<>> /\ Head(mutations) = c

\* The mutation under way is the first of the queue.
Leave == mutations' = Tail(mutations)

LoadProfiles(c) ==
  /\ calls[c].pc = "queued" /\ OwnTurn(c) /\ ReadableProfiles
  /\ calls' = [calls EXCEPT ![c].loaded = LoadedProfiles, ![c].pc = "save"]
  /\ UNCHANGED <<diskVars, locked, mutations, configQueue, connected, newest, owed, failures,
                 started, choices>>

\* addCustomProvider replaces the profile of that id, removeCustomProvider drops it.
SaveProfiles(c) ==
  LET call == calls[c]
      gone == call.op = "remove" /\ call.loaded[call.p] = NoProfile
  IN  /\ call.pc = "save"
      /\ format' = [format EXCEPT !.profiles = IF gone THEN @ ELSE "ok"]
      /\ \/ /\ call.op = "persist"
            /\ profiles' = [call.loaded EXCEPT ![call.p] = [env |-> EnvOf[call.p]]]
            /\ calls' = [calls EXCEPT ![c].pc = "done", ![c].ok = (call.secret # NoKey)]
            /\ Leave
         \/ /\ call.op = "remove" /\ ~gone
            /\ profiles' = [call.loaded EXCEPT ![call.p] = NoProfile]
            /\ calls' = Step(c, "forget")
            /\ UNCHANGED mutations
         \/ /\ gone
            /\ calls' = Step(c, "done") /\ Leave
            /\ UNCHANGED profiles
      /\ UNCHANGED <<keys, locked, config, configQueue, connected, newest, owed, failures, started,
                     choices>>

\* A load or a save that throws ends the mutation; persistProvider then takes its key back.
MutationFails(c) ==
  /\ calls[c].pc \in {"queued", "save"} /\ OwnTurn(c)
  /\ IF calls[c].pc = "queued" THEN ~ReadableProfiles /\ UNCHANGED failures
     ELSE MayFail /\ failures' = failures + 1
  /\ calls' = Step(c, IF calls[c].secret # NoKey THEN "rollback" ELSE "done")
  /\ Leave
  /\ UNCHANGED <<diskVars, locked, configQueue, connected, newest, owed, started, choices>>

Remove(c, p) ==
  /\ Begin(c, [Idle EXCEPT !.op = "remove", !.p = p, !.pc = "queued"])
  /\ mutations' = Append(mutations, c)
  /\ UNCHANGED <<diskVars, locked, configQueue, connected, newest, owed, failures, choices>>

\* Mutant: the legacy entry goes with the first profile that names it.
ForgottenBug(call) == {call.p, call.loaded[call.p].env}

\* The provider's own entry, and the legacy one once no remaining profile could resolve through it.
Forgotten(call) ==
  LET env == call.loaded[call.p].env
  IN  {call.p} \cup
      (IF \E q \in All \ {call.p} : ListedIn(call.loaded, q) /\ EnvRefIn(call.loaded, q) = env
       THEN {} ELSE {env})

\* credentialStore.delete swallows every error: with a locked keychain the entries stay.
Forget(c) ==
  /\ calls[c].pc = "forget"
  /\ \E deleted \in IF locked THEN {{}} ELSE {Forgotten(calls[c])} \cup
                                             (IF MayFail THEN SUBSET Forgotten(calls[c]) ELSE {}) :
       /\ keys' = [r \in Refs |-> IF r \in deleted THEN NoKey ELSE keys[r]]
       /\ calls' = [calls EXCEPT ![c].pc = "done",
                                 ![c].ok = (deleted = Forgotten(calls[c]))]
       /\ failures' = IF locked \/ deleted = Forgotten(calls[c]) THEN failures ELSE failures + 1
  /\ Leave
  /\ UNCHANGED <<profiles, locked, config, format, configQueue, connected, newest, owed, started,
                 choices>>

----------------------------------------------------------------------------
(* After a call *)

\* What p's entry is owed when the call has been answered: the history of the reports.
Report(call) ==
  IF ~call.alone THEN Unknown
  ELSE IF call.op = "remove" THEN (IF call.ok THEN NoKey ELSE Unknown)
  ELSE IF call.ok THEN call.secret ELSE owed[call.p]

\* connect continues after persistProvider, whatever it reported: the newest connection is
\* recorded as the active one.
Finish(c) ==
  /\ calls[c].pc = "done"
  /\ owed' = [owed EXCEPT ![calls[c].p] = Report(calls[c])]
  /\ configQueue' = IF calls[c].op = "persist" /\ newest = c
                    THEN Append(configQueue, [provider |-> calls[c].p, model |-> Unset])
                    ELSE configQueue
  /\ calls' = [calls EXCEPT ![c] = Idle]
  /\ newest' = IF newest = c THEN Unset ELSE newest
  /\ UNCHANGED <<diskVars, locked, mutations, connected, failures, started, choices>>

\* A model is chosen from the catalog of the connected provider: saveConfig({model}).
ChooseModel ==
  /\ connected # Unset /\ choices < MaxChoices
  /\ choices' = choices + 1
  /\ configQueue' = Append(configQueue, [provider |-> Unset, model |-> connected])
  /\ UNCHANGED <<diskVars, locked, calls, mutations, connected, newest, owed, failures, started>>

\* A session of another provider is loaded: the connection is replaced, the configuration is not.
RestoreProvider(p) ==
  /\ Listed(p) /\ p # connected /\ choices < MaxChoices
  /\ choices' = choices + 1
  /\ connected' = p
  /\ UNCHANGED <<diskVars, locked, calls, mutations, configQueue, newest, owed, failures, started>>

\* buildAppConfigPartial over the stored configuration.
Merged(stored, write) ==
  LET owner == IF write.provider # Unset THEN write.provider ELSE stored.active
  IN  [active |-> owner,
       model  |-> IF write.model # Unset /\ owner # Unset
                  THEN [stored.model EXCEPT ![owner] = write.model] ELSE stored.model]

\* The head of the queue of configuration writes: load, merge, save; or a generic failure.
SaveConfig ==
  /\ configQueue # <<>>
  /\ configQueue' = Tail(configQueue)
  /\ \/ /\ ReadableConfig
        /\ config' = Merged(LoadedConfig, Head(configQueue))
        /\ format' = [format EXCEPT !.config = "ok"]
        /\ UNCHANGED failures
     \/ /\ ReadableConfig => MayFail
        /\ failures' = IF ReadableConfig THEN failures + 1 ELSE failures
        /\ UNCHANGED <<config, format>>
  /\ UNCHANGED <<profiles, keys, locked, calls, mutations, connected, newest, owed, started, choices>>

\* The process ends, at any point, and starts again: restoreState connects to the active provider
\* if its profile is still there.  A call cut short leaves its provider's entry unknown.
Restart ==
  /\ choices < MaxChoices /\ choices' = choices + 1
  /\ calls' = [c \in Calls |-> Idle] /\ mutations' = <<>> /\ configQueue' = <<>> /\ newest' = Unset
  /\ owed' = [p \in All |-> IF Quiet(p) THEN owed[p] ELSE Unknown]
  /\ locked' \in BOOLEAN
  /\ connected' = LET P == LoadedConfig.active
              IN  IF ReadableConfig /\ P # Unset /\ Listed(P) THEN P ELSE Unset
  /\ UNCHANGED <<diskVars, failures, started>>

----------------------------------------------------------------------------

Call(c) ==
  \/ \E P \in All : ConnectBlank(c, P) \/ \E s \in Secrets : ConnectWithKey(c, P, s)
  \/ \E P \in Compatible : Remove(c, P)
  \/ ReadPrevious(c) \/ ReadPreviousFails(c) \/ SetKey(c) \/ SetKeyFails(c)
  \/ Rollback(c) \/ RollbackFails(c)
  \/ LoadProfiles(c) \/ SaveProfiles(c) \/ MutationFails(c) \/ Forget(c) \/ Finish(c)

StoreNext ==
  \/ \E c \in Calls : Call(c)
  \/ ChooseModel \/ SaveConfig \/ Restart
  \/ \E P \in All : RestoreProvider(P)

StoreSpec == StoreInit /\ [][StoreNext]_storeVars

----------------------------------------------------------------------------
(* Properties *)

\* Type invariant of the stores and the calls on them.
StoreTypeOK ==
  /\ profiles \in [Compatible -> Profile]
  /\ keys \in [Refs -> Secrets \cup {OldKey, NoKey}]
  /\ config \in [active : All \cup {Unset}, model : [All -> All \cup {Unset}]]
  /\ format \in [profiles : Formats, config : Formats]
  /\ \A c \in Calls :
       /\ calls[c].pc \in {"idle", "read", "set", "queued", "save", "rollback", "forget", "done"}
       /\ calls[c].op = "remove" => calls[c].secret = NoKey
       /\ calls[c].pc \in {"save", "forget"} => OwnTurn(c)
       /\ calls[c].pc \in {"queued", "save", "forget"} <=> \E i \in DOMAIN mutations : mutations[i] = c
  /\ mutations \in Seq(Calls)
  /\ connected \in All \cup {Unset} /\ locked \in BOOLEAN
  /\ owed \in [All -> Secrets \cup {NoKey, Unknown}]

\* A credential reported as stored can be restored: its provider is listed and resolves to that
\* very key, however many other profiles were added, removed or refused meanwhile; and a write that
\* was reported as failed left the previous key in place.  Three cases are exempt: two calls on one
\* provider at a time, of which a failing one undoes the other; a roll back that fails itself; and a
\* roll back of a call whose read of the previous key had failed, which deletes that key although it
\* existed ("Restore the prior value when one existed", persistProvider).  A call whose read failed
\* and that then succeeds is not exempt.  A providers file that is not JSON hides the built-in
\* provider as well, so nothing is resolved then.
ReportedIsRestorable ==
  \A p \in All : Quiet(p) /\ owed[p] # Unknown =>
    /\ keys[p] = owed[p]
    /\ owed[p] \in Secrets /\ ReadableProfiles => Listed(p) /\ (~locked => Resolve(p) = owed[p])

\* Removing one profile never takes a credential away from another, though profiles of an earlier
\* release share keychain entries named by a variable.
SharedKeyKept ==
  [][\A c \in Calls : Forget(c) =>
       \A q \in All \ {calls[c].p} : Listed(q) => Resolve(q)' = Resolve(q)]_storeVars

\* "defaultModelByProvider always keeps the provider key it belongs to" (buildAppConfigPartial).
ModelsKeepTheirProvider == \A p \in All : config.model[p] \in {Unset, p}

=============================================================================
