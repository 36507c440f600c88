---------------------------- MODULE ModelSelection ----------------------------
(***************************************************************************)
(* From the rows of a provider's model catalog to the request that names a *)
(* model: the catalogs of the two adapters (packages/provider-openrouter   *)
(* and packages/provider-openai-compatible), what ProviderRegistry.resolve *)
(* (packages/harness/src/registry.ts) makes of them, and the reasoning     *)
(* effort that goes with the request.                                      *)
(*                                                                         *)
(* A row has an id, which may be malformed, a status, and what it says of  *)
(* reasoning: whether it takes a parameter for it, and the efforts it      *)
(* lists.  Names, limits and the other capabilities are left out: no       *)
(* caller requires one.  The compatible adapter is built without           *)
(* capabilities and without a mapping of the efforts (cli/src/run.ts).     *)
(***************************************************************************)
EXTENDS Naturals, Sequences

Providers == {"openrouter", "compatible"}
KnownIntents == {"auto", "off", "minimal", "low", "medium", "high", "xhigh"}

WellFormed(row) == row.id # "malformed"

\* The efforts the interface knows; the provider calls "off" "none".
nativeIntent(value) ==
    IF value = "none" THEN {"off"} ELSE {value} \cap KnownIntents

\* A model may say that it reasons without listing an effort.
normalizeReasoning(row) ==
    [supported |-> row.reasoning,
     intents |-> UNION {nativeIntent(value) : value \in row.efforts}]

\* OpenRouter: what is not marked unavailable is available.
normalizeModel(row) ==
    [id |-> row.id,
     status |-> IF row.status = "unavailable" THEN "unavailable"
                ELSE "available",
     reasoning |-> normalizeReasoning(row)]

\* A compatible endpoint says nothing but the id.
configuredModel(row) ==
    [id |-> row.id, status |-> "unknown",
     reasoning |-> [supported |-> FALSE, intents |-> {}]]

\* Malformed rows are skipped; a model keeps the place of its row ...
discoverModels(provider, rows) ==
    [i \in {i \in DOMAIN rows : WellFormed(rows[i])} |->
        IF provider = "openrouter" THEN normalizeModel(rows[i])
                                   ELSE configuredModel(rows[i])]

\* Mutant: a catalog that lists a model twice passes.
UnambiguousBug(models) == TRUE

\* ... and a catalog that lists a model twice is refused as a whole, by the
\* adapter and once more by sanitizeCatalog.
Unambiguous(models) ==
    \A i, j \in DOMAIN models : models[i].id = models[j].id => i = j

\* resolveReasoning: "auto" leaves the effort to the provider.
ReasoningResolves(provider, model, intent) ==
    \/ intent = "auto"
    \/ /\ provider = "openrouter"
       /\ model.reasoning.supported /\ intent \in model.reasoning.intents

\* toOpenRouterOptions
Effort(intent) ==
    IF intent = "auto" THEN {} ELSE {IF intent = "off" THEN "none" ELSE intent}

\* Can the selection be resolved from this catalog?
Resolves(provider, rows, wanted) ==
    LET models == discoverModels(provider, rows)
    IN  /\ Unambiguous(models)
        /\ \E i \in DOMAIN models :
               /\ models[i].id = wanted.model
               /\ models[i].status # "unavailable"
               /\ ReasoningResolves(provider, models[i], wanted.intent)

\* The request that is then sent.
Request(wanted) == [model |-> wanted.model, effort |-> Effort(wanted.intent)]
=============================================================================
