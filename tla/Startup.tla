------------------------------ MODULE Startup -------------------------------
(***************************************************************************)
(* How the scorer comes up: main.py's first lines, config.py,              *)
(* load_embedder of embed.py and create_server, in a container that the    *)
(* cluster starts again whenever its process ends, while the owner edits   *)
(* the deployment and fills the model volume anew.  Sweeps begins where    *)
(* this ends.                                                              *)
(*                                                                         *)
(* What matters is what is read when: the environment once, at the start;  *)
(* HF_HUB_OFFLINE by the Hugging Face library as it is imported; the       *)
(* volume when the model is loaded; and the version that goes into the     *)
(* notes with every score.                                                 *)
(***************************************************************************)
EXTENDS Naturals

CONSTANTS
    Intervals,   \* what SWEEP_INTERVAL_SECONDS may be set to that is a number
    Addresses,   \* what LISTEN_ADDR may be set to that a socket can be bound to
    Versions,    \* VOICE_MODEL_VERSION, and the weights that go by it
    Default,     \* the version that is meant when none is given
    Fetched,     \* the weights the Hugging Face repository has to offer
    Deployed,    \* the environments the owner may deploy
    Patient,     \* the owner fills the volume when the old process has gone
    MaxChanges,  \* bound: the owner's changes to the deployment
    MaxSwaps,    \* bound: how often the volume is filled anew
    MaxKills     \* bound: kills of the process

Required == {"VAULT_DIR", "STATE_DIR", "VOICE_MODEL_DIR"}

(* A variable may be absent, empty, or set; the image may set the flag.    *)
Env == [required : [Required -> {"absent", "", "set"}],
        version : Versions \cup {"absent", ""},
        interval : Intervals \cup {"absent", "", "word"},
        address : Addresses \cup {"absent", "", "word"},
        offline : BOOLEAN]

ASSUME StartupAssumption ==
    /\ Deployed \subseteq Env
    /\ Default \in Versions /\ Fetched \notin Versions
    /\ "" \notin Intervals \cup Addresses \cup Versions
    /\ Patient \in BOOLEAN
    /\ MaxChanges \in Nat /\ MaxSwaps \in Nat /\ MaxKills \in Nat

VARIABLES
    env,      \* the deployment's environment, for the process that starts next
    volume,   \* the weights in VOICE_MODEL_DIR; {} while it is being filled
    step,     \* where the process is
    cfg,      \* its environment
    offline,  \* HF_HUB_OFFLINE in its environment
    hub,      \* what the Hugging Face library, once imported, goes by
    model,    \* the weights in memory
    scores,   \* the weights behind every score, and the version noted with it
    fetched,  \* whether weights ever came over the network
    changes, swaps, kills

process == <<cfg, offline, hub, model>>
bounds == <<changes, swaps, kills>>
vars == <<env, volume, step, process, scores, fetched, bounds>>

(* The version the owner means.                                            *)
Version(e) == IF e.version \in {"absent", ""} THEN Default ELSE e.version

Init ==
    /\ env \in Deployed
    /\ volume \in {{}, {Version(env)}}
    /\ step = "config"
    /\ cfg = env /\ offline = env.offline
    /\ hub = "unimported" /\ model = {}
    /\ scores = {} /\ fetched = FALSE
    /\ changes = 0 /\ swaps = 0 /\ kills = 0

----
(* The process, from its start to its threads.                             *)

Down == step' = "down" /\ UNCHANGED process

(* `_require`: set, and to something.                                      *)
Has(e, name) == e.required[name] \notin {"absent", ""}

Number_Required(value) == value \in Intervals

(* `env.get(name) or default`, then int().                                 *)
Number(value) == value \in {"absent", ""} \cup Intervals

Valid(e) == (\A name \in Required : Has(e, name)) /\ Number(e.interval)

LoadConfig_AsIs ==
    /\ step = "config"
    /\ IF Valid(cfg) THEN step' = "import" /\ UNCHANGED process ELSE Down
    /\ UNCHANGED <<env, volume, scores, fetched, bounds>>

(* load_config: a ValueError that nothing catches, or the flag is set.     *)
LoadConfig ==
    /\ step = "config"
    /\ IF Valid(cfg)
       THEN step' = "import" /\ offline' = TRUE /\ UNCHANGED <<cfg, hub, model>>
       ELSE Down
    /\ UNCHANGED <<env, volume, scores, fetched, bounds>>

(* load_embedder imports the library, which reads its flag here.           *)
ImportHub ==
    /\ step = "import"
    /\ step' = "load"
    /\ hub' = IF offline THEN "offline" ELSE "online"
    /\ UNCHANGED <<cfg, offline, model>>
    /\ UNCHANGED <<env, volume, scores, fetched, bounds>>

(* from_hparams: what the volume lacks it would fetch.                     *)
LoadModel ==
    /\ step = "load"
    /\ IF volume # {}
       THEN step' = "bind" /\ model' = volume /\ UNCHANGED <<cfg, offline, hub, fetched>>
       ELSE IF hub = "offline" THEN Down /\ UNCHANGED fetched
       ELSE /\ step' = "bind" /\ model' = {Fetched} /\ fetched' = TRUE
            /\ UNCHANGED <<cfg, offline, hub>>
    /\ UNCHANGED <<env, volume, scores, bounds>>

(* create_server: the port must be a number and the host one of this pod's.*)
CreateServer ==
    /\ step = "bind"
    /\ IF cfg.address \in {"absent", ""} \cup Addresses
       THEN step' = "serving" /\ UNCHANGED process
       ELSE Down
    /\ UNCHANGED <<env, volume, scores, fetched, bounds>>

(* embed_fn closes over the classifier that was loaded; the version noted  *)
(* is the one that load_config read.                                       *)
Score ==
    /\ step = "serving"
    /\ scores' = scores \cup {<<w, Version(cfg)>> : w \in model}
    /\ UNCHANGED <<env, volume, step, process, fetched, bounds>>

----
(* The cluster and the owner.                                              *)

(* A process that has ended is started again, in the image's environment.  *)
Start ==
    /\ step = "down"
    /\ step' = "config"
    /\ cfg' = env /\ offline' = env.offline
    /\ hub' = "unimported" /\ model' = {}
    /\ UNCHANGED <<env, volume, scores, fetched, bounds>>

Kill ==
    /\ kills < MaxKills
    /\ step # "down"
    /\ kills' = kills + 1
    /\ Down
    /\ UNCHANGED <<env, volume, scores, fetched, changes, swaps>>

(* A changed deployment replaces the process, strategy Recreate: the old   *)
(* one has a while to end.                                                 *)
Replaced ==
    /\ step # "down" /\ cfg # env
    /\ Down
    /\ UNCHANGED <<env, volume, scores, fetched, bounds>>

Reconfigure ==
    /\ changes < MaxChanges
    /\ changes' = changes + 1
    /\ \E e \in Deployed : Version(e) = Version(env) /\ env' = e
    /\ UNCHANGED <<volume, step, process, scores, fetched, swaps, kills>>

(* Another model: "Bump it whenever the volume contents change".  The      *)
(* volume is emptied as the version is changed, and then filled.           *)
Swap ==
    /\ swaps < MaxSwaps
    /\ swaps' = swaps + 1
    /\ \E v \in Versions \ {Version(env)} : env' = [env EXCEPT !.version = v]
    /\ volume' = {}
    /\ UNCHANGED <<step, process, scores, fetched, changes, kills>>

Fill ==
    /\ volume = {}
    /\ Patient => step = "down" \/ Version(cfg) = Version(env)
    /\ volume' = {Version(env)}
    /\ UNCHANGED <<env, step, process, scores, fetched, bounds>>

Up == LoadConfig \/ ImportHub \/ LoadModel \/ CreateServer \/ Start

Next == Up \/ Score \/ Kill \/ Replaced \/ Reconfigure \/ Swap \/ Fill

Spec == Init /\ [][Next]_vars

(* The process runs, and the cluster starts and replaces it.               *)
FairSpec == Spec /\ WF_vars(Up) /\ WF_vars(Replaced)

----
(* Properties.                                                             *)

(* Types; and the process has a model from its loading on.                 *)
TypeOK ==
    /\ env \in Env /\ cfg \in Env
    /\ volume \in SUBSET Versions
    /\ step \in {"config", "import", "load", "bind", "serving", "down"}
    /\ offline \in BOOLEAN
    /\ hub \in {"unimported", "offline", "online"}
    /\ model \in SUBSET (Versions \cup {Fetched})
    /\ step \in {"bind", "serving"} => model # {}
    /\ scores \subseteq (Versions \cup {Fetched}) \X Versions
    /\ fetched \in BOOLEAN
    /\ changes \in 0..MaxChanges /\ swaps \in 0..MaxSwaps /\ kills \in 0..MaxKills

(* "nothing is fetched at runtime": whatever the image's environment says  *)
(* and whenever the volume is empty, no weights come over the network. The *)
(* flag is set before the library that reads it is imported.               *)
NeverFetches == ~fetched

(* A version noted with a score "becomes the only record of what produced  *)
(* a given score": it names the weights that did, though the volume is     *)
(* filled anew under a running process, and processes come and go.  For an *)
(* owner who just bumps it (Patient is FALSE) it need not.                 *)
VersionIsTrue == \A s \in scores : s[1] = s[2]

(* Once the deployment and the volume stay right, the scorer comes up and  *)
(* stays up, whatever is left to its default.                              *)
Right(e) ==
    /\ \A name \in Required : e.required[name] = "set"
    /\ e.interval # "word" /\ e.address # "word"
ComesUp == <>[](Right(env) /\ volume # {}) => <>[](step = "serving" /\ cfg = env)
=============================================================================
