-------------------------------- MODULE Config --------------------------------
(***************************************************************************)
(* The configuration of one stack over many runs: what the manifest        *)
(* defaults, the cache of the last run (config.yaml) and the operator's    *)
(* file (.stackwiz.env) make of every field (config_overrides.py), what    *)
(* the two screens of the terminal interface make of that                  *)
(* (screens/domain.py, screens/config.py), what a run saves (state.py) and *)
(* what init-env writes over the operator's file (scaffold.py).            *)
(*                                                                         *)
(* A text is a sequence of pieces: literals, "${key}" references, and what *)
(* _domain_to_dn makes of a literal.  Unset is Python's None.  A domain    *)
(* holds no references.                                                    *)
(***************************************************************************)
EXTENDS Naturals, SequencesExt

CONSTANTS
    Words,          \* what texts are made of: literals and names of keys
    FieldOrder,     \* the config fields, in the order of the manifest
    IpField,        \* those whose id ends in _ip
    Required,       \* those with required: true
    Manifests,      \* the releases of the manifest
    Writes,         \* key -> what the operator may write for it in the file
    Types,          \* field -> what the operator may type for it
    Domains,        \* the domains the operator may name
    Addresses,      \* what detecting the node's address may give
    MaxRuns, MaxEdits   \* exploration bounds

Field == ToSet(FieldOrder)
Key == Field \cup {"domain", "domain_dn"}

Lit(l) == <<"lit", l>>
Ref(k) == <<"ref", k>>
Text(l) == <<Lit(l)>>
Unset == << <<"none", "None">> >>
AutoIp == Text("auto")
Empty == [k \in {} |-> Unset]
Entry(k, v) == [j \in {k} |-> v]

\* A map laid over another, as by dict.update (the prover does not know @@).
top ++ bottom ==
    [k \in DOMAIN top \cup DOMAIN bottom |-> IF k \in DOMAIN top THEN top[k] ELSE bottom[k]]

Piece == {"lit", "ref", "dn"} \X Words
Value == Seq(Piece) \cup {Unset}
IsMap(values) == DOMAIN values \subseteq Key /\ values \in [DOMAIN values -> Value]

\* The keys a text refers to.
Refs(text) == {text[i][2] : i \in {j \in DOMAIN text : text[j][1] = "ref"}}
HasRef(text) == Refs(text) # {}

ASSUME ConfigAssumption ==
    /\ Key \cup {"None", "auto"} \subseteq Words
    /\ FieldOrder \in Seq(Field) /\ IpField \cup Required \subseteq Field
    /\ \A m \in Manifests :
          /\ m.domain \in Seq(Piece) /\ m.default \in [Field -> Value]
          /\ m.derived \in [Field -> {"yes", "no", "auto"}]
    /\ DOMAIN Writes \subseteq Field \cup {"domain"}
    /\ DOMAIN Types \subseteq Field \ {"domain"}
    /\ \A k \in DOMAIN Writes : Writes[k] \subseteq Value
    /\ \A f \in DOMAIN Types : Types[f] \subseteq Value
    /\ Domains \cup Addresses \subseteq Seq(Piece)
    /\ MaxRuns \in Nat /\ MaxEdits \in Nat

VARIABLES
    manifest,   \* the release that is installed
    file,       \* .stackwiz.env: absent, yaml or broken, and its lines
    cache,      \* config.yaml
    torn,       \* whether the last save of it was cut short
    node,       \* what detecting the node's address gives now
    screen,     \* the terminal session: where it is, what it loaded and shows
    last,       \* the last run: how, from what, and with which values
    runs, edits

host == <<file, node, manifest>>
vars == <<host, cache, torn, screen, last, runs, edits>>

Closed == [at |-> "closed"]
NoRun == [by |-> "nobody"]

Screen ==
    [at : {"domain", "config"}, manifest : Manifests, file : {screen.file},
     shown : [Field -> Value] \cup [Key -> Value], domain : Value]

Run ==
    [by : {"headless", "screens"}, manifest : Manifests, file : {last.file},
     node : Addresses, values : [Field -> Value] \cup [Field \cup {"domain"} -> Value],
     domain : Value, typed : SUBSET Field]

TypeOK ==
    /\ manifest \in Manifests /\ node \in Addresses
    /\ file \in [kind : {"absent", "yaml", "broken"}, lines : {file.lines}]
    /\ IsMap(file.lines) /\ IsMap(cache) /\ torn \in BOOLEAN
    /\ screen # Closed => screen \in Screen /\ IsMap(screen.file)
    /\ last # NoRun => last \in Run /\ IsMap(last.file)
    /\ runs \in 0 .. MaxRuns /\ edits \in 0 .. MaxEdits

-----------------------------------------------------------------------------
(* Substitution *)

\* str() of a value.
Str(v) == IF v = Unset THEN Text("None") ELSE v

\* One piece of a text; a reference to an unknown key stays.
Substitute(piece, values) ==
    IF piece[1] = "ref" /\ piece[2] \in DOMAIN values THEN Str(values[piece[2]])
    ELSE <<piece>>

Interpolate(text, values) ==
    FlattenSeq([i \in DOMAIN text |-> Substitute(text[i], values)])

\* One key of the map, if it is there.
InterpolateKey(values, k) ==
    IF k \in DOMAIN values /\ HasRef(values[k])
    THEN [values EXCEPT ![k] = Interpolate(@, values)] ELSE values

\* Each key in turn, seeing what the keys before it have become.
KeyOrder == <<"domain">> \o FieldOrder \o <<"domain_dn">>
Pass(values) ==
    LET upTo[i \in 0 .. Len(KeyOrder)] ==
            IF i = 0 THEN values ELSE InterpolateKey(upTo[i - 1], KeyOrder[i])
    IN  IF \A k \in DOMAIN values : ~ HasRef(values[k]) THEN values
        ELSE upTo[Len(KeyOrder)]

RecursiveInterpolate(values) == Pass(Pass(Pass(Pass(values))))

\* "a.b" becomes "dc=a,dc=b".
DomainToDn(text) == [i \in DOMAIN text |-> <<"dn", text[i][2]>>]

\* A bug: one pass for everything.
SettleShallow(values) == Pass(Entry("domain_dn", DomainToDn(values["domain"])) ++ values)

\* The dn is made of the domain as it has become, and everything once more.
Settle(values) ==
    LET once == RecursiveInterpolate(values)
    IN  RecursiveInterpolate(Entry("domain_dn", DomainToDn(once["domain"])) ++ once)

-----------------------------------------------------------------------------
(* The layers *)

IsDerived(m, f) == m.derived[f] = "yes" \/ (m.derived[f] = "auto" /\ HasRef(m.default[f]))

Defaults(m) == Restrict(m.default, {f \in Field : m.default[f] # Unset})

\* A bug: derived fields are taken from the cache too.
CachedAll(m, cached) == Restrict(cached, DOMAIN cached \cap (Field \cup {"domain"}))

\* A cached value counts unless its field is derived.
Cached(m, cached) ==
    Restrict(cached, {k \in DOMAIN cached :
                         k = "domain" \/ (k \in Field /\ ~ IsDerived(m, k))})

Overrides(lines) == Restrict(lines, DOMAIN lines \cap (Field \cup {"domain"}))

\* A file that is not YAML counts as empty.
Lines(f) == IF f.kind = "yaml" THEN f.lines ELSE Empty

\* A bug: the defaults win over the cache.
MergeDefaultsFirst(m, cached, lines) ==
    Overrides(lines) ++ Defaults(m) ++ Cached(m, cached) ++ Entry("domain", m.domain)

Merge(m, cached, lines) ==
    Overrides(lines) ++ Cached(m, cached) ++ Defaults(m) ++ Entry("domain", m.domain)

\* "auto" becomes an address after everything else has been substituted.
ResolveIps(values) ==
    [f \in DOMAIN values |-> IF f \in IpField /\ values[f] = AutoIp THEN node ELSE values[f]]

\* A bug: fields without a value are left out.
EffectiveConfigPartial(m, cached, lines) ==
    LET merged == Merge(m, cached, lines)
        resolved == Settle(merged ++ Entry("domain_dn", DomainToDn(merged["domain"])))
    IN  [values |-> ResolveIps(Restrict(resolved, DOMAIN resolved \cap Field)),
         domain |-> resolved["domain"]]

EffectiveConfig(m, cached, lines) ==
    LET merged == Merge(m, cached, lines)
        resolved == Settle(merged ++ Entry("domain_dn", DomainToDn(merged["domain"])))
        value(f) == IF f \in DOMAIN resolved THEN resolved[f] ELSE Unset
    IN  [values |-> ResolveIps([f \in Field |-> value(f)]), domain |-> resolved["domain"]]

\* Derived fields go back to the manifest's defaults.
RederiveForDomain(m, current, d) ==
    LET derived == {f \in DOMAIN Defaults(m) : IsDerived(m, f)}
    IN  Settle(Entry("domain", d) ++ Entry("domain_dn", DomainToDn(d)) ++
               Restrict(m.default, derived) ++ current)

-----------------------------------------------------------------------------
(* Runs *)

\* save_config: the file is rewritten in place, and then the run goes on; or
\* the process dies in between and leaves it empty.
Save(run) ==
    /\ runs < MaxRuns /\ runs' = runs + 1
    /\ \/ cache' = run.values /\ torn' = FALSE /\ last' = run
       \/ ~ torn /\ cache' = Empty /\ torn' = TRUE /\ UNCHANGED last

Filled(values) == \A f \in Required : values[f] \notin {Unset, <<>>}

\* A run without a terminal, which ends if a required value is missing.
Headless ==
    /\ LET config == EffectiveConfig(manifest, cache, Lines(file)) IN
       /\ Filled(config.values)
       /\ Save([by |-> "headless", manifest |-> manifest, file |-> Lines(file),
                node |-> node, values |-> config.values, domain |-> config.domain,
                typed |-> {}])
    /\ UNCHANGED <<host, screen, edits>>

\* The terminal interface works out everything once, when it starts.
OpenScreens ==
    /\ screen.at = "closed" /\ runs < MaxRuns
    /\ LET config == EffectiveConfig(manifest, cache, Lines(file)) IN
       screen' = [at |-> "domain", manifest |-> manifest, file |-> Lines(file),
                  shown |-> config.values, domain |-> config.domain]
    /\ UNCHANGED <<host, cache, torn, last, runs, edits>>

\* Next on the domain screen.
DomainNext ==
    /\ screen.at = "domain"
    /\ \E d \in Domains \cup {screen.domain} :
          screen' = [screen EXCEPT !.at = "config", !.domain = d,
                                   !.shown = RederiveForDomain(screen.manifest, @, d)]
    /\ UNCHANGED <<host, cache, torn, last, runs, edits>>

\* Back to the domain screen, which keeps what was derived.
Back ==
    /\ screen.at = "config"
    /\ screen' = [screen EXCEPT !.at = "domain"]
    /\ UNCHANGED <<host, cache, torn, last, runs, edits>>

\* An empty input stands for no value.
Widget(v) == IF v = <<>> THEN Unset ELSE v

\* Next on the configuration screen, where the operator may have typed over one
\* of the fields: the values go to the engine, which saves them.
ConfigNext ==
    /\ screen.at = "config"
    /\ \E typed \in {Empty} \cup UNION {{Entry(f, t) : t \in Types[f]} : f \in DOMAIN Types} :
          LET shown == [f \in Field \ {"domain"} |->
                           IF f \in DOMAIN screen.shown THEN Widget(screen.shown[f])
                           ELSE Unset]
              values == typed ++ shown ++ Entry("domain", screen.domain)
          IN  /\ \A f \in DOMAIN typed : typed[f] # shown[f]
              /\ Filled(values)
              /\ Save([by |-> "screens", manifest |-> screen.manifest,
                       file |-> screen.file, node |-> node, values |-> values,
                       domain |-> screen.domain, typed |-> DOMAIN typed])
    /\ screen' = Closed
    /\ UNCHANGED <<host, edits>>

\* The operator leaves without a run.
Quit ==
    /\ screen # Closed /\ screen' = Closed
    /\ UNCHANGED <<host, cache, torn, last, runs, edits>>

-----------------------------------------------------------------------------
(* The operator's file, the release and the node *)

Edit ==
    /\ edits < MaxEdits /\ edits' = edits + 1
    /\ UNCHANGED <<cache, torn, screen, last, runs>>

Yaml(lines) == [kind |-> "yaml", lines |-> lines]

EditFile ==
    /\ \E k \in DOMAIN Writes : \E v \in Writes[k] : file' = Yaml(Entry(k, v) ++ Lines(file))
    /\ Edit /\ UNCHANGED <<manifest, node>>

RemoveLine ==
    /\ \E k \in DOMAIN file.lines : file' = Yaml(Restrict(file.lines, DOMAIN file.lines \ {k}))
    /\ Edit /\ UNCHANGED <<manifest, node>>

BreakFile ==
    /\ file.kind = "yaml" /\ file' = [kind |-> "broken", lines |-> Empty]
    /\ Edit /\ UNCHANGED <<manifest, node>>

\* What init-env writes: the domain, and for every field the old file had a line
\* for, what the old file comes to when it is read as if it were the cache.
Rendered(m, existing) ==
    LET config == EffectiveConfig(m, existing, Empty)
        kept == (DOMAIN existing \cap Field) \ {"domain"}
    IN  Entry("domain", config.domain) ++ Restrict(config.values, kept)

\* init-env, with a domain given or not; over a present file only with --force.
InitEnv ==
    /\ \E force \in BOOLEAN, given \in {Empty} \cup {Entry("domain", d) : d \in Domains} :
          /\ file.kind = "absent" \/ force
          /\ file' = Yaml(Rendered(manifest, given ++ Lines(file)))
    /\ Edit /\ UNCHANGED <<manifest, node>>

Upgrade ==
    /\ \E m \in Manifests \ {manifest} : manifest' = m
    /\ Edit /\ UNCHANGED <<file, node>>

HostMoves ==
    /\ \E a \in Addresses \ {node} : node' = a
    /\ Edit /\ UNCHANGED <<file, manifest>>

-----------------------------------------------------------------------------
Init ==
    /\ manifest \in Manifests /\ node \in Addresses
    /\ file = [kind |-> "absent", lines |-> Empty]
    /\ cache = Empty /\ torn = FALSE
    /\ screen = Closed /\ last = NoRun
    /\ runs = 0 /\ edits = 0

Next ==
    \/ Headless \/ OpenScreens \/ DomainNext \/ Back \/ ConfigNext \/ Quit
    \/ EditFile \/ RemoveLine \/ BreakFile \/ InitEnv \/ Upgrade \/ HostMoves

Spec == Init /\ [][Next]_vars

=============================================================================
