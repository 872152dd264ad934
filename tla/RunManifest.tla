---------------------------- MODULE RunManifest ----------------------------
(***************************************************************************)
(* polar_llama/manifest.py and the fingerprint of polar_llama/keys.py: the *)
(* record of a run's configuration, what of it is hashed, what a load      *)
(* refuses, and what a replay verifies, warns of and sends.  A hash is     *)
(* taken to be injective.  Parameters and seed are recorded and never      *)
(* sent; they are left out, like the ids of stores and the time.           *)
(***************************************************************************)
EXTENDS Integers

CONSTANT None

FormatVersion == 1

Hash(text) == IF text = None THEN None ELSE <<"sha256", text>>

\* What is not given is recorded as a fixed word, in the manifest and in the
\* fingerprint.
ProviderOf(provider) == IF provider = None THEN "openai" ELSE provider
ModelOf(model) == IF model = None THEN "default" ELSE model

\* An environment has the base URL, or None, of each provider that reads one, and
\* the version of the package, None when its metadata is not installed.
VersionOf(environment) ==
    IF environment.version = None THEN "0+unknown" ELSE environment.version

\* endpoint_fingerprint_input: for a provider not given this is None.
EndpointInput(provider, environment) ==
    IF provider \in DOMAIN environment.urls THEN environment.urls[provider] ELSE None

\* config_fingerprint.  A response model is a name and a schema.
Fingerprint(symbol, provider, model, response, system, endpoint) ==
    Hash([symbol |-> symbol, provider |-> ProviderOf(provider), model |-> ModelOf(model),
          response |-> response, system |-> system, endpoint |-> endpoint])

NameOf(response) == IF response = None THEN None ELSE response.name
SchemaOf(response) == IF response = None THEN None ELSE response.schema

\* RunManifest.hashed_fields: the fields that make the id.
HashedNames == {"format", "version", "symbol", "provider", "model", "fingerprint", "system",
                "template", "name", "schema", "endpoint"}
HashedFields(manifest) == [f \in HashedNames |-> manifest[f]]
ManifestId(fields) == Hash(fields)

\* build_manifest.  usage says whether usage_column was given.
BuildManifest(c, environment, usage, storeTexts) ==
    LET endpoint == EndpointInput(c.provider, environment)
        shown ==
            [format |-> FormatVersion, version |-> VersionOf(environment), symbol |-> c.symbol,
             provider |-> ProviderOf(c.provider), model |-> ModelOf(c.model),
             fingerprint |-> Fingerprint(c.symbol, c.provider, c.model, c.response, c.system, endpoint),
             system |-> Hash(c.system), template |-> Hash(c.template),
             name |-> NameOf(c.response), schema |-> Hash(SchemaOf(c.response)),
             endpoint |-> endpoint, usage |-> usage,
             texts |-> IF storeTexts THEN [system |-> c.system, template |-> c.template] ELSE None,
             id |-> None]
    IN [shown EXCEPT !.id = ManifestId(HashedFields(shown))]

\* load_manifest raises for a newer format and for an id that is not the
\* content's.
LoadRefuses(file) ==
    file.format > FormatVersion \/ ManifestId(HashedFields(file)) # file.id

\* replay fills in what is not given from the texts of the manifest.
Filled(manifest, given) ==
    IF manifest.texts = None THEN given
    ELSE [given EXCEPT !.system = IF @ = None THEN manifest.texts.system ELSE @,
                       !.template = IF @ = None THEN manifest.texts.template ELSE @]

\* _verify_replay_inputs raises for any of these.
Diverges(manifest, inputs) ==
    \/ Hash(inputs.system) # manifest.system
    \/ Hash(inputs.template) # manifest.template
    \/ Hash(SchemaOf(inputs.response)) # manifest.schema
    \/ NameOf(inputs.response) # manifest.name
    \/ Fingerprint(manifest.symbol, manifest.provider, manifest.model, inputs.response,
                   inputs.system, manifest.endpoint) # manifest.fingerprint

\* It only warns of these.  A version that cannot be read is not compared.
DriftOf(manifest, environment) ==
    {d \in {"endpoint", "version"} :
       \/ d = "endpoint" /\ EndpointInput(manifest.provider, environment) # manifest.endpoint
       \/ d = "version" /\ environment.version # None /\ environment.version # manifest.version}

\* Mutant: the word for a model that was not given is sent as a model's name.
AsRecorded(manifest) == manifest.model

ModelArgument(manifest) == IF manifest.model = ModelOf(None) THEN None ELSE manifest.model

\* What a call sends as its system prompt: inference_async sends it only with
\* cache=, inference_messages takes none.
SystemSent(symbol, cache, system) ==
    IF symbol = "inference_async" /\ cache THEN system ELSE None

\* The call of a replay, which gives no cache=, and of a run of c.
ReplayCall(manifest, inputs) ==
    [symbol   |-> manifest.symbol, provider |-> manifest.provider,
     model    |-> ModelArgument(manifest), response |-> inputs.response,
     system   |-> SystemSent(manifest.symbol, FALSE, inputs.system),
     usage    |-> manifest.usage]
OriginalCall(c, cache, usage) ==
    [symbol   |-> c.symbol, provider |-> ProviderOf(c.provider),
     model    |-> c.model, response |-> c.response,
     system   |-> SystemSent(c.symbol, cache, c.system),
     usage    |-> usage]
=============================================================================
