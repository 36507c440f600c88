----------------------------- MODULE HarnessCache -----------------------------
(***************************************************************************)
(* The one harness the controller keeps (packages/cli/src/tui/             *)
(* controller.ts, #resolveHarness; run.ts, createInProcessHarness).        *)
(*                                                                         *)
(* A connection attempt, a refresh of the catalog and a run each ask for a *)
(* harness for their own connection and their own credential values, and   *)
(* may do so while another waits for one to be created.  A harness keeps   *)
(* the values it was created with and looks its credential up in them at   *)
(* every request; a later caller may be handed the same harness.           *)
(***************************************************************************)
CONSTANTS
    Calls,        \* connect, refreshCatalog and runChat, each time they run
    Connections,  \* provider, base URL and the name of the key's variable
    References,   \* names of environment variables
    Credentials,
    RefOf,        \* apiKeyEnvironmentVariable of a connection, in References
    Env           \* the environment of the process, of MaybeCredential each

Missing == CHOOSE v : v \notin Credentials
MaybeCredential == Credentials \cup {Missing}

Values == [References -> MaybeCredential]
Harnesses == [connection : Connections, values : Values]
NoHarness == CHOOSE h : h \notin Harnesses

VARIABLES
    harness,     \* #harness
    harnessKey,  \* #harnessKey
    call         \* where each call is, and what it was given

vars == <<harness, harnessKey, call>>

\* The value a variable has for a caller: its own before the environment's.
Lookup(values, reference) ==
    IF values[reference] # Missing THEN values[reference] ELSE Env[reference]

\* The key of the cache holds a digest of the credential, not of all values.
Key(connection, values) == <<connection, Lookup(values, RefOf[connection])>>

\* What a harness sends with a request.
Sends(h) == <<h.connection, Lookup(h.values, RefOf[h.connection])>>

Keys == Connections \X MaybeCredential
NoKey == CHOOSE k : k \notin Keys

Idle == [at |-> "idle"]
Asking(connection, values) ==
    [at |-> "asking", connection |-> connection, values |-> values]
Given(connection, values, h) ==
    [at |-> "given", connection |-> connection, values |-> values, harness |-> h]

Init ==
    /\ harness = NoHarness /\ harnessKey = NoKey
    /\ call = [c \in Calls |-> Idle]

\* The cached harness answers at once; else one is created, which may take a
\* while.
ResolveHarness(c) ==
    /\ call[c].at # "asking"
    /\ \E connection \in Connections, values \in Values :
           call' = [call EXCEPT ![c] =
               IF harness # NoHarness /\ harnessKey = Key(connection, values)
               THEN Given(connection, values, harness)
               ELSE Asking(connection, values)]
    /\ UNCHANGED <<harness, harnessKey>>

\* Whoever created a harness keeps it and leaves it to the next.
Created(c) ==
    /\ call[c].at = "asking"
    /\ harness' = [connection |-> call[c].connection, values |-> call[c].values]
    /\ harnessKey' = Key(call[c].connection, call[c].values)
    /\ call' = [call EXCEPT ![c] =
           Given(call[c].connection, call[c].values, harness')]

\* A base URL is missing or refused; the cache stays as it was.
CreationFails(c) ==
    /\ call[c].at = "asking"
    /\ call' = [call EXCEPT ![c] = Idle]
    /\ UNCHANGED <<harness, harnessKey>>

Next ==
    \E c \in Calls : ResolveHarness(c) \/ Created(c) \/ CreationFails(c)

Spec == Init /\ [][Next]_vars

-----------------------------------------------------------------------------
\* Whatever calls overlap, a caller's requests go to its own connection with
\* the credential of its own values, though others created the harness.
OwnRequests ==
    \A c \in Calls :
        call[c].at = "given" =>
            Sends(call[c].harness) = Key(call[c].connection, call[c].values)

-----------------------------------------------------------------------------
States ==
    {Idle} \cup {Asking(x, v) : x \in Connections, v \in Values}
           \cup {Given(x, v, h) : x \in Connections, v \in Values, h \in Harnesses}

TypeOK ==
    /\ harness \in Harnesses \cup {NoHarness}
    /\ call \in [Calls -> States]
===============================================================================
