----------------------------- MODULE Definitions -----------------------------
(***************************************************************************)
(* What `goship deploy` and `goship compose up` make of the files they     *)
(* read: environment files and the compose file (internal/compose), sizes  *)
(* (internal/shared/size), the manifest and its overlays (internal/        *)
(* manifest) and the environment of the project (cmd/goship/commands).     *)
(*                                                                         *)
(* Pure functions.  A function that may return an error gives Ok(value) or *)
(* Bad; texts are cut into the fields the parsers look for; a field that   *)
(* may be missing says so in "given".  Commands, volumes, labels, build    *)
(* arguments and warnings are left out; secrets are in the clear, as       *)
(* Commands.tla has the vault.  FilesOverride is a faulty variant of the   *)
(* definition after it.                                                    *)
(***************************************************************************)
EXTENDS Integers, Sequences, FiniteSets, SequencesExt, TLC

CONSTANT MaxInt   \* the largest int64

ASSUME MaxIntAssumption == MaxInt \in Nat

Ok(v) == [ok |-> TRUE, is |-> v]
Bad   == [ok |-> FALSE]

NoVars == [x \in {} |-> ""]

\* maps.Copy(base, top).
Over(base, top) == [x \in DOMAIN base \cup DOMAIN top |->
                       IF x \in DOMAIN top THEN top[x] ELSE base[x]]
-----------------------------------------------------------------------------
(* Environment files.  A line is blank, a comment, a word without "=" or a  *)
(* pair; a value is bare, quoted, or followed by a comment.                 *)

stripQuotes(value) == value.text
Untouched(value) == CASE value.form = "quoted"    -> "'" \o value.text \o "'"
                      [] value.form = "commented" -> value.text \o " # comment"
                      [] OTHER                    -> value.text

LoadEnvFile(file) ==
    LET Reads(env, line) == IF line.kind = "pair" /\ line.name # ""
                            THEN Over(env, line.name :> stripQuotes(line.value)) ELSE env
    IN  FoldLeft(Reads, NoVars, file.lines)

\* Secrets files know neither quotes nor "export".
loadSecretsFile(file) ==
    LET Name(line) == IF line.export THEN "export " \o line.name ELSE line.name
        Reads(env, line) == IF line.kind = "pair"
                            THEN Over(env, Name(line) :> Untouched(line.value)) ELSE env
    IN  FoldLeft(Reads, NoVars, file.lines)
-----------------------------------------------------------------------------
(* The environment of a service.  A value is a text, or refers to a         *)
(* variable, with a default or without.                                     *)

lookupVar(name, context, host) ==
    CASE name \in DOMAIN context -> Ok(context[name])
      [] name \notin DOMAIN context /\ name \in DOMAIN host -> Ok(host[name])
      [] OTHER -> Bad

resolveValue(v, context, host) ==
    LET found == lookupVar(v.name, context, host) IN
    CASE v.form = "text"                -> v.text
      [] v.form = "reference"           -> IF found.ok THEN found.is ELSE ""
      [] v.form = "reference or default" ->
            IF found.ok /\ found.is # "" THEN found.is ELSE v.text

substituteVars(env, context, host) ==
    [name \in DOMAIN env |-> resolveValue(env[name], context, host)]

\* A map, or a list of pairs and of names without a value.
Nothing == [form |-> "text", name |-> "", text |-> ""]
parseEnvironment(section) ==
    LET Reads(env, item) ==
            Over(env, item.name :> IF item.given THEN item.value ELSE Nothing)
    IN  IF section.kind \in {"map", "list"}
        THEN Ok(FoldLeft(Reads, [x \in {} |-> Nothing], section.items)) ELSE Bad

\* Files that cannot be opened are skipped.
FromFiles(paths, files) ==
    LET Reads(env, path) == IF files[path].exists
                            THEN Over(env, LoadEnvFile(files[path])) ELSE env
    IN  FoldLeft(Reads, NoVars, paths)

FilesOverride(svc, files, host) ==
    LET base == FromFiles(svc.envFiles, files)
        raw  == parseEnvironment(svc.environment)
    IN  IF raw.ok THEN Ok(Over(substituteVars(raw.is, base, host), base)) ELSE Bad

resolveServiceEnv(svc, files, host) ==
    LET base == FromFiles(svc.envFiles, files)
        raw  == parseEnvironment(svc.environment)
    IN  IF raw.ok THEN Ok(Over(base, substituteVars(raw.is, base, host))) ELSE Bad
-----------------------------------------------------------------------------
(* Ports, sizes, policies.  Numbers are what strconv makes of a field.      *)

\* host:container or ip:host:container, and /protocol.
parsePorts(ports) ==
    LET Pair(p) == IF Len(p.parts) = 3 THEN Tail(p.parts) ELSE p.parts
        Good(p) == Len(p.parts) \in 2..3 /\ \A i \in 1..2 : Pair(p)[i].ok
        Port(p) == [host |-> Pair(p)[1].is, container |-> Pair(p)[2].is,
                    protocol |-> IF p.protocol.given THEN p.protocol.is ELSE "tcp"]
    IN  IF \A i \in DOMAIN ports : Good(ports[i])
        THEN Ok([i \in DOMAIN ports |-> Port(ports[i])]) ELSE Bad

\* What an int64 makes of n: there are as many negative values as others.
Wrap(n) == ((n + MaxInt + 1) % (2 * (MaxInt + 1))) - (MaxInt + 1)

\* Megabytes; gigabytes are multiplied without a look at the width.
ParseSizeMB(s) ==
    CASE ~s.number.ok                    -> Bad
      [] s.number.ok /\ s.number.is \notin 0..MaxInt -> Bad
      [] OTHER -> Ok(IF s.suffix = "G" THEN Wrap(s.number.is * 1024) ELSE s.number.is)

mapRestartPolicy(policy) ==
    CASE policy \in {"always", "unless-stopped"} -> "always"
      [] policy = "on-failure"                   -> "on-failure"
      [] OTHER                                   -> "never"

parseResources(limits) ==
    LET cpu == IF limits.cpus.given THEN limits.cpus.number ELSE Ok(0)
        mem == IF limits.memory.given THEN ParseSizeMB(limits.memory.size) ELSE Ok(0)
    IN  IF cpu.ok /\ mem.ok THEN Ok([cpu |-> cpu.is, memory |-> mem.is]) ELSE Bad

\* One service; an image is named for it when it is built.
ParseService(name, svc, files, host) ==
    LET ports == parsePorts(svc.ports)
        env   == resolveServiceEnv(svc, files, host)
        res   == parseResources(svc.limits)
    IN  IF ~ports.ok \/ ~env.ok \/ ~res.ok THEN Bad
        ELSE Ok([image |-> IF svc.build /\ svc.image = "" THEN "goship-" \o name \o ":latest"
                           ELSE svc.image,
                 built |-> svc.build /\ svc.image = "",
                 ports |-> ports.is, env |-> env.is, cpu |-> res.is.cpu,
                 memory |-> res.is.memory,
                 restart |-> IF svc.restart = "" THEN "" ELSE mapRestartPolicy(svc.restart)])

\* One bad service spoils the file; one without image or build is skipped.
ParseBytes(services, files, host) ==
    LET app == [n \in DOMAIN services |-> ParseService(n, services[n], files, host)] IN
    IF DOMAIN services = {} \/ \E n \in DOMAIN services : ~app[n].ok THEN Bad
    ELSE Ok([n \in {m \in DOMAIN services : app[m].is.image # ""} |-> app[n].is])
-----------------------------------------------------------------------------
(* The manifest.                                                            *)

\* Load: the secrets of the file are the base of those in the manifest.
Load(m, files) ==
    IF \/ m.secretsFile # "" /\ ~files[m.secretsFile].exists
       \/ m.version = "" \/ ~m.named
    THEN Bad
    ELSE Ok(IF m.secretsFile = "" THEN m
            ELSE [m EXCEPT !.secrets = Over(loadSecretsFile(files[m.secretsFile]), @)])

\* Resolve: fields of the overlay that are given, its domains as a whole, its
\* variables one by one.
Resolve(m, name) ==
    LET o == m.environments[name]
        Field(base, over) == IF over.given THEN over ELSE base
    IN  CASE name = "" -> Ok(m)
          [] name # "" /\ name \notin DOMAIN m.environments -> Bad
          [] OTHER -> Ok([m EXCEPT
                !.resources = [cpu    |-> IF o.resources.cpu > 0 THEN o.resources.cpu ELSE @.cpu,
                               memory |-> Field(@.memory, o.resources.memory),
                               disk   |-> Field(@.disk, o.resources.disk)],
                !.domains = IF o.domains # <<>> THEN o.domains ELSE @,
                !.defaultDomain = IF o.domains # <<>> THEN o.domains[1] ELSE @,
                !.build   = Field(@, o.build),
                !.env     = Over(@, o.env),
                !.secrets = Over(@, o.secrets)])

ToEntityResources(r) ==
    LET mem  == IF r.memory.given THEN ParseSizeMB(r.memory.size) ELSE Ok(0)
        disk == IF r.disk.given THEN ParseSizeMB(r.disk.size) ELSE Ok(0)
    IN  IF mem.ok /\ disk.ok THEN Ok([cpu |-> r.cpu, memory |-> mem.is, disk |-> disk.is])
        ELSE Bad
-----------------------------------------------------------------------------
(* A deployment by the command line itself: the project it leaves and the   *)
(* apps it hands to the VM.                                                 *)

ProjectAfter(p, m) ==
    [p EXCEPT !.env = Over(Over(@, m.env), m.secrets),
              !.domains = IF m.domains = <<>> THEN @ ELSE m.domains,
              !.defaultDomain = CASE m.domains = <<>>      -> @
                                  [] m.domains # <<>> /\ m.defaultDomain = "" -> m.domains[1]
                                  [] OTHER                 -> m.defaultDomain]

\* mergeProjectEnv.
WithProjectEnv(p, app) == [app EXCEPT !.env = Over(p.env, @)]

Capped(p, app) == IF p.cpu > 0 /\ app.cpu > p.cpu THEN [app EXCEPT !.cpu = p.cpu] ELSE app

\* Services to build are skipped when the manifest says not to build.
ToDeploy(p, m, apps) ==
    LET build == m.build.given => m.build.is
    IN  [n \in {n \in DOMAIN apps : build \/ ~apps[n].built} |->
            WithProjectEnv(p, Capped(p, apps[n]))]

runDeploy(project, m, overlay, services, files, host) ==
    LET loaded   == Load(m, files)
        resolved == IF loaded.ok THEN Resolve(loaded.is, overlay) ELSE Bad
        parsed   == ParseBytes(services, files, host)
    IN  IF ~resolved.ok \/ ~parsed.ok THEN Bad
        ELSE IF ~ToEntityResources(resolved.is.resources).ok THEN Bad
        ELSE LET p == ProjectAfter(project, resolved.is)
             IN  Ok([project |-> p, apps |-> ToDeploy(p, resolved.is, parsed.is)])
-----------------------------------------------------------------------------
(* Where a variable may get its value from, the strongest first.            *)

\* The maps a service's variables come from, and the map that takes each from
\* the first of them that has it.
Sources(project, m, overlay, svc, files, host) ==
    LET base == FromFiles(svc.envFiles, files)
        o    == m.environments[overlay]
    IN  << substituteVars(parseEnvironment(svc.environment).is, base, host),
           base,
           IF overlay = "" THEN NoVars ELSE o.secrets,
           m.secrets,
           IF m.secretsFile = "" THEN NoVars ELSE loadSecretsFile(files[m.secretsFile]),
           IF overlay = "" THEN NoVars ELSE o.env,
           m.env,
           project.env >>

Strongest(maps) ==
    [x \in UNION {DOMAIN maps[i] : i \in DOMAIN maps} |->
        LET first == CHOOSE i \in DOMAIN maps :
                        x \in DOMAIN maps[i] /\ \A j \in 1..(i - 1) : x \notin DOMAIN maps[j]
        IN  maps[first][x]]

\* The same by name, for a variable V.
Layers == <<"environment", "second env_file", "first env_file", "overlay secret", "secret",
            "secrets_file", "overlay env", "env", "project">>

\* A deployment: the layers that give V a value, and what the environment
\* section makes of it when it refers to W, which the first env_file and the
\* host may have, empty or not.
Cases == [from : SUBSET ToSet(Layers),
          form : {"text", "reference", "reference or default"},
          inFile : {"absent", "", "file's"}, onHost : {"absent", "", "host's"}]

Pair(name, text) == [kind |-> "pair", name |-> name, export |-> FALSE,
                     value |-> [form |-> "quoted", text |-> text]]
Bare(name, text) == [Pair(name, text) EXCEPT !.value.form = "bare"]
Lines(S) == [exists |-> TRUE, lines |-> S]
If(test, x, none) == IF test THEN x ELSE none
Gives(c, layer) == If(layer \in c.from, "V" :> layer, NoVars)
Item(c) == [name |-> "V", given |-> TRUE,
            value |-> [form |-> c.form, name |-> "W", text |-> "environment"]]

Files(c) ==
    [first  |-> Lines(If("first env_file" \in c.from,
                         <<Pair("V", "an earlier line"), Pair("V", "first env_file")>>, <<>>)
                      \o If(c.inFile # "absent", <<Pair("W", c.inFile)>>, <<>>)),
     second |-> Lines(If("second env_file" \in c.from, <<Pair("V", "second env_file")>>, <<>>)),
     lost   |-> [exists |-> FALSE, lines |-> <<>>],
     secrets |-> Lines(If("secrets_file" \in c.from, <<Bare("V", "secrets_file")>>, <<>>))]

Sized(n, suffix) == [given |-> TRUE, size |-> [number |-> Ok(n), suffix |-> suffix]]
NotGiven == [given |-> FALSE]

ServiceOf(c) ==
    [image |-> "", build |-> TRUE, restart |-> "unless-stopped",
     ports |-> <<[parts |-> <<Bad, Ok(8080), Ok(80)>>, protocol |-> NotGiven]>>,
     limits |-> [cpus |-> [given |-> TRUE, number |-> Ok(4)], memory |-> Sized(1, "G")],
     envFiles |-> <<"first", "lost", "second">>,
     environment |-> [kind |-> "list",
                      items |-> If("environment" \in c.from, <<Item(c)>>, <<>>)]]

ManifestOf(c) ==
    [version |-> "1", named |-> TRUE, secretsFile |-> "secrets", build |-> NotGiven,
     domains |-> <<"base.dev">>, defaultDomain |-> "base.dev",
     resources |-> [cpu |-> 2, memory |-> Sized(512, ""), disk |-> NotGiven],
     env |-> Gives(c, "env"), secrets |-> Gives(c, "secret"),
     environments |->
        [prod |-> [domains |-> <<"prod.dev">>, build |-> [given |-> TRUE, is |-> TRUE],
                   resources |-> [cpu |-> 0, memory |-> NotGiven, disk |-> Sized(1, "G")],
                   env |-> Gives(c, "overlay env"), secrets |-> Gives(c, "overlay secret")]]]

ProjectOf(c) == [env |-> Gives(c, "project"), cpu |-> 2, domains |-> <<>>, defaultDomain |-> ""]
HostOf(c)    == If(c.onHost # "absent", "W" :> c.onHost, NoVars)

Outcome(c) == runDeploy(ProjectOf(c), ManifestOf(c), "prod", [web |-> ServiceOf(c)], Files(c),
                        HostOf(c))

\* W: the env_file hides the host's, even when it is empty.
OfW(c) == IF c.inFile = "absent" THEN c.onHost ELSE c.inFile

Specified(c) ==
    LET first == CHOOSE i \in DOMAIN Layers :
                    Layers[i] \in c.from /\ \A j \in 1..(i - 1) : Layers[j] \notin c.from
    IN  CASE first # 1 \/ c.form = "text" -> Layers[first]
          [] first = 1 /\ c.form = "reference" -> If(OfW(c) = "absent", "", OfW(c))
          [] OTHER -> If(OfW(c) \in {"absent", ""}, "environment", OfW(c))

\* Through five merges in four files, a variable reaches the app with the value
\* of the strongest layer that gives it one: the service's environment, its
\* env_files from the last, the secrets of the overlay, of the manifest and of
\* the secrets file, the variables of the overlay and of the manifest, and those
\* the project had (parser.go:167-221, manifest/parser.go:76-152,
\* deploy.go:115-150, env.go:303-321).  The CPUs never exceed the VM's.
ResolvedAsSpecified ==
    \A c \in Cases : LET app == Outcome(c).is.apps["web"] IN
        /\ app.cpu = 2
        /\ app.env = Strongest(Sources(ProjectOf(c), ManifestOf(c), "prod", ServiceOf(c),
                                       Files(c), HostOf(c)))
        /\ "V" \in DOMAIN app.env <=> c.from # {}
        /\ c.from # {} => app.env["V"] = Specified(c)
=============================================================================
