------------------------- MODULE Definitions_proofs -------------------------
(* Proofs about Definitions, for any files, manifests, projects and hosts.   *)
EXTENDS Definitions, TLAPS

USE MaxIntAssumption

-----------------------------------------------------------------------------
(* Sizes.                                                                    *)

\* An int64 stays one, and a number it can hold is left as it is.
LEMMA WrapRange ==
  ASSUME NEW n \in Int
  PROVE  Wrap(n) \in -(MaxInt + 1)..MaxInt
  BY DEF Wrap

LEMMA WrapFits ==
  ASSUME NEW n \in 0..MaxInt
  PROVE  Wrap(n) = n
  BY DEF Wrap

\* A size that is accepted is the one that was written exactly when that many
\* megabytes fit; gigabytes beyond that are not refused, but become some other
\* number (size/parse.go:34-42).
THEOREM SizesWrap ==
  ASSUME NEW s, s.number.ok => s.number.is \in Int, ParseSizeMB(s).ok,
         NEW mb, mb = IF s.suffix = "G" THEN s.number.is * 1024 ELSE s.number.is
  PROVE  /\ ParseSizeMB(s).is \in -(MaxInt + 1)..MaxInt
         /\ ParseSizeMB(s).is = mb <=> mb <= MaxInt
<1>1. /\ s.number.is \in 0..MaxInt
      /\ ParseSizeMB(s).is = IF s.suffix = "G" THEN Wrap(s.number.is * 1024) ELSE s.number.is
  BY DEF ParseSizeMB, Ok, Bad
<1>2. CASE s.suffix # "G"
  BY <1>1, <1>2
<1>3. CASE s.suffix = "G"
  <2>1. mb \in Nat /\ ParseSizeMB(s).is = Wrap(mb)
    BY <1>1, <1>3
  <2>2. Wrap(mb) \in -(MaxInt + 1)..MaxInt
    BY <2>1, WrapRange
  <2>3. mb <= MaxInt => Wrap(mb) = mb
    BY <2>1, WrapFits
  <2>4. QED BY <2>1, <2>2, <2>3
<1>4. QED BY <1>2, <1>3
-----------------------------------------------------------------------------
(* Merging.                                                                  *)

\* The upper map wins where both have a name.
LEMMA Merged ==
  ASSUME NEW base, NEW top
  PROVE  /\ DOMAIN Over(base, top) = DOMAIN base \cup DOMAIN top
         /\ \A x \in DOMAIN top : Over(base, top)[x] = top[x]
         /\ \A x \in DOMAIN base : x \notin DOMAIN top => Over(base, top)[x] = base[x]
  BY DEF Over

\* It matters only what the upper map says, and an empty one says nothing.
LEMMA SameContents ==
  ASSUME NEW base, NEW f, NEW g, DOMAIN f = DOMAIN g, \A x \in DOMAIN f : f[x] = g[x]
  PROVE  Over(base, f) = Over(base, g)
  BY DEF Over

LEMMA NothingOver ==
  ASSUME NEW f
  PROVE  /\ DOMAIN Over(f, NoVars) = DOMAIN f
         /\ \A x \in DOMAIN f : Over(f, NoVars)[x] = f[x]
         /\ DOMAIN Over(NoVars, f) = DOMAIN f
         /\ \A x \in DOMAIN f : Over(NoVars, f)[x] = f[x]
  BY DEF Over, NoVars

\* The strongest of several maps is the first that has the name.
LEMMA FirstOf ==
  ASSUME NEW maps, DOMAIN maps \subseteq Nat \ {0}, NEW i \in DOMAIN maps,
         NEW x \in DOMAIN maps[i], \A j \in 1..(i - 1) : x \notin DOMAIN maps[j]
  PROVE  Strongest(maps)[x] = maps[i][x]
<1>1. x \in UNION {DOMAIN maps[j] : j \in DOMAIN maps}
  OBVIOUS
<1>2. \A k \in DOMAIN maps :
         x \in DOMAIN maps[k] /\ (\A j \in 1..(k - 1) : x \notin DOMAIN maps[j]) => k = i
  OBVIOUS
<1>3. (CHOOSE k \in DOMAIN maps :
         x \in DOMAIN maps[k] /\ \A j \in 1..(k - 1) : x \notin DOMAIN maps[j]) = i
  BY <1>2
<1>4. QED BY <1>1, <1>3 DEF Strongest
-----------------------------------------------------------------------------
(* What becomes of the variables on their way to an app.                     *)

\* Load puts the secrets of the file under those of the manifest.
LEMMA LoadedManifest ==
  ASSUME NEW m, NEW files, {"env", "secrets", "environments"} \subseteq DOMAIN m,
         Load(m, files).ok
  PROVE  /\ DOMAIN Load(m, files).is = DOMAIN m
         /\ Load(m, files).is.env = m.env
         /\ Load(m, files).is.environments = m.environments
         /\ Load(m, files).is.secrets =
               IF m.secretsFile = "" THEN m.secrets
               ELSE Over(loadSecretsFile(files[m.secretsFile]), m.secrets)
<1>1. Load(m, files).is =
         IF m.secretsFile = "" THEN m
         ELSE [m EXCEPT !.secrets = Over(loadSecretsFile(files[m.secretsFile]), @)]
  BY DEF Load, Ok, Bad
<1>2. QED BY <1>1

\* Resolve puts the variables of the overlay over those of the manifest.
LEMMA ResolvedManifest ==
  ASSUME NEW l, NEW name, {"env", "secrets"} \subseteq DOMAIN l, Resolve(l, name).ok
  PROVE  /\ Resolve(l, name).is.env =
               IF name = "" THEN l.env ELSE Over(l.env, l.environments[name].env)
         /\ Resolve(l, name).is.secrets =
               IF name = "" THEN l.secrets ELSE Over(l.secrets, l.environments[name].secrets)
<1>1. CASE name = ""
  BY <1>1 DEF Resolve, Ok
<1>2. CASE name # ""
  <2>1. name \in DOMAIN l.environments
    BY <1>2 DEF Resolve, Bad
  <2>2. QED BY <1>2, <2>1 DEF Resolve, Ok
<1>3. QED BY <1>1, <1>2

\* A service that is parsed has the variables of its files, and over them those
\* of its environment section.
LEMMA ParsedService ==
  ASSUME NEW services, NEW files, NEW host, ParseBytes(services, files, host).ok,
         NEW n \in DOMAIN ParseBytes(services, files, host).is
  PROVE  /\ n \in DOMAIN services
         /\ {"env", "cpu"} \subseteq DOMAIN ParseBytes(services, files, host).is[n]
         /\ ParseBytes(services, files, host).is[n].env =
               Over(FromFiles(services[n].envFiles, files),
                    substituteVars(parseEnvironment(services[n].environment).is,
                                   FromFiles(services[n].envFiles, files), host))
         /\ parseResources(services[n].limits).ok
         /\ ParseBytes(services, files, host).is[n].cpu =
               parseResources(services[n].limits).is.cpu
<1> DEFINE svc  == services[n]
           app  == ParseBytes(services, files, host).is[n]
           base == FromFiles(svc.envFiles, files)
           env  == resolveServiceEnv(svc, files, host)
           res  == parseResources(svc.limits)
<1>1. /\ n \in DOMAIN services /\ ParseService(n, svc, files, host).ok
      /\ app = ParseService(n, svc, files, host).is
  BY DEF ParseBytes, Ok, Bad
<1>2. /\ env.ok /\ {"env", "cpu"} \subseteq DOMAIN app /\ app.env = env.is
      /\ res.ok /\ app.cpu = res.is.cpu
  <2>1. /\ ~(~parsePorts(svc.ports).ok \/ ~env.ok \/ ~res.ok)
        /\ \E image, built, ports, memory, restart :
              ParseService(n, svc, files, host) =
                 Ok([image |-> image, built |-> built, ports |-> ports, env |-> env.is,
                     cpu |-> res.is.cpu, memory |-> memory, restart |-> restart])
    BY <1>1, Zenon DEF ParseService, Bad
  <2>2. QED BY <1>1, <2>1 DEF Ok
<1>3. env.is = Over(base, substituteVars(parseEnvironment(svc.environment).is, base, host))
  BY <1>2 DEF resolveServiceEnv, Ok, Bad
<1>4. QED BY <1>1, <1>2, <1>3

\* The project keeps its CPUs, and gets the variables of the manifest and over
\* them its secrets.
LEMMA ProjectWithManifest ==
  ASSUME NEW project, NEW r, {"env", "cpu"} \subseteq DOMAIN project
  PROVE  /\ ProjectAfter(project, r).env = Over(Over(project.env, r.env), r.secrets)
         /\ ProjectAfter(project, r).cpu = project.cpu
  BY DEF ProjectAfter

\* An app gets the variables of its project under its own, and of its CPUs as
\* many as the project has.
LEMMA DeployedApp ==
  ASSUME NEW p, NEW r, NEW apps, NEW n \in DOMAIN ToDeploy(p, r, apps),
         {"env", "cpu"} \subseteq DOMAIN apps[n]
  PROVE  /\ ToDeploy(p, r, apps)[n].env = Over(p.env, apps[n].env)
         /\ ToDeploy(p, r, apps)[n].cpu =
               IF p.cpu > 0 /\ apps[n].cpu > p.cpu THEN p.cpu ELSE apps[n].cpu
<1>1. ToDeploy(p, r, apps)[n] = WithProjectEnv(p, Capped(p, apps[n]))
  BY DEF ToDeploy
<1>2. /\ DOMAIN Capped(p, apps[n]) = DOMAIN apps[n]
      /\ Capped(p, apps[n]).env = apps[n].env
      /\ Capped(p, apps[n]).cpu = IF p.cpu > 0 /\ apps[n].cpu > p.cpu THEN p.cpu ELSE apps[n].cpu
  BY DEF Capped
<1>3. QED BY <1>1, <1>2 DEF WithProjectEnv

\* What runDeploy has when it succeeds: the manifest that applies, the project it
\* leaves and the apps of the compose file.
Applied(m, overlay, files)          == Resolve(Load(m, files).is, overlay).is
Left(project, m, overlay, files)    == ProjectAfter(project, Applied(m, overlay, files))
Deployed(project, m, overlay, services, files, host) ==
    ToDeploy(Left(project, m, overlay, files), Applied(m, overlay, files),
             ParseBytes(services, files, host).is)

LEMMA DeployParts ==
  ASSUME NEW project, NEW m, NEW overlay, NEW services, NEW files, NEW host,
         runDeploy(project, m, overlay, services, files, host).ok
  PROVE  /\ Load(m, files).ok /\ Resolve(Load(m, files).is, overlay).ok
         /\ ParseBytes(services, files, host).ok
         /\ runDeploy(project, m, overlay, services, files, host).is.apps =
               Deployed(project, m, overlay, services, files, host)
         /\ runDeploy(project, m, overlay, services, files, host).is.project =
               Left(project, m, overlay, files)
<1>1. Bad.ok = FALSE /\ \A v : Ok(v).is = v
  BY DEF Bad, Ok
<1>2. Load(m, files).ok /\ Resolve(Load(m, files).is, overlay).ok
      /\ ParseBytes(services, files, host).ok
  BY <1>1 DEF runDeploy
<1>3. ToEntityResources(Applied(m, overlay, files).resources).ok
  BY <1>1, <1>2 DEF runDeploy, Applied
<1>4. runDeploy(project, m, overlay, services, files, host) =
         Ok([project |-> Left(project, m, overlay, files),
             apps |-> Deployed(project, m, overlay, services, files, host)])
  BY <1>2, <1>3 DEF runDeploy, Applied, Left, Deployed
<1>5. QED BY <1>1, <1>2, <1>4
-----------------------------------------------------------------------------
(* The theorems about a deployment.                                          *)

\* The merges of a deployment, one upon the other, take a name from the first
\* of eight maps that has it.
LEMMA Layered ==
  ASSUME NEW a, NEW b, NEW c, NEW d, NEW e, NEW f, NEW g, NEW h
  PROVE  Over(Over(Over(h, Over(g, f)), Over(Over(e, d), c)), Over(b, a))
           = Strongest(<<a, b, c, d, e, f, g, h>>)
<1> DEFINE maps == <<a, b, c, d, e, f, g, h>>
           all  == UNION {DOMAIN maps[i] : i \in DOMAIN maps}
           ba   == Over(b, a)
           hgf  == Over(h, Over(g, f))
           edc  == Over(Over(e, d), c)
           rest == Over(hgf, edc)
           env  == Over(rest, ba)
<1>1. /\ DOMAIN maps = 1..8
      /\ maps[1] = a /\ maps[2] = b /\ maps[3] = c /\ maps[4] = d
      /\ maps[5] = e /\ maps[6] = f /\ maps[7] = g /\ maps[8] = h
  OBVIOUS
<1>2. /\ DOMAIN ba = DOMAIN b \cup DOMAIN a
      /\ \A x \in DOMAIN a : ba[x] = a[x]
      /\ \A x \in DOMAIN b : x \notin DOMAIN a => ba[x] = b[x]
  BY Merged
<1>3. /\ DOMAIN edc = DOMAIN e \cup DOMAIN d \cup DOMAIN c
      /\ \A x \in DOMAIN c : edc[x] = c[x]
      /\ \A x \in DOMAIN d : x \notin DOMAIN c => edc[x] = d[x]
      /\ \A x \in DOMAIN e : x \notin DOMAIN c \cup DOMAIN d => edc[x] = e[x]
  BY DEF Over
<1>4. /\ DOMAIN hgf = DOMAIN h \cup DOMAIN g \cup DOMAIN f
      /\ \A x \in DOMAIN f : hgf[x] = f[x]
      /\ \A x \in DOMAIN g : x \notin DOMAIN f => hgf[x] = g[x]
      /\ \A x \in DOMAIN h : x \notin DOMAIN f \cup DOMAIN g => hgf[x] = h[x]
  BY DEF Over
<1> HIDE DEF ba, hgf, edc
<1>5. /\ DOMAIN rest = DOMAIN hgf \cup DOMAIN edc
      /\ \A x \in DOMAIN edc : rest[x] = edc[x]
      /\ \A x \in DOMAIN hgf : x \notin DOMAIN edc => rest[x] = hgf[x]
  BY Merged
<1> HIDE DEF rest
<1>6. /\ DOMAIN env = DOMAIN rest \cup DOMAIN ba
      /\ \A x \in DOMAIN ba : env[x] = ba[x]
      /\ \A x \in DOMAIN rest : x \notin DOMAIN ba => env[x] = rest[x]
  BY Merged
<1>7. env = [x \in DOMAIN env |-> env[x]]
  BY DEF Over
<1> HIDE DEF maps, env
<1>8. DOMAIN env = all
  BY <1>1, <1>2, <1>3, <1>4, <1>5, <1>6
<1>9. ASSUME NEW x \in all
      PROVE  env[x] = Strongest(maps)[x]
  <2>1. PICK i \in 1..8 : x \in DOMAIN maps[i] /\ \A j \in 1..(i - 1) : x \notin DOMAIN maps[j]
    <3>1. \E i \in 1..8 : x \in DOMAIN maps[i]
      BY <1>1
    <3>2. QED BY <3>1
  <2>2. env[x] = maps[i][x]
    <3>1. CASE i \in 1..2
      BY <1>1, <1>2, <1>6, <2>1, <3>1
    <3>2. CASE i \in 3..8
      <4>1. x \notin DOMAIN a /\ x \notin DOMAIN b
        BY <1>1, <2>1, <3>2
      <4>2. x \in DOMAIN rest /\ env[x] = rest[x]
        BY <1>2, <1>6, <1>8, <4>1
      <4>3. CASE i \in 3..5
        BY <1>1, <1>3, <1>5, <2>1, <4>2, <4>3
      <4>4. CASE i \in 6..8
        <5>1. x \notin DOMAIN c /\ x \notin DOMAIN d /\ x \notin DOMAIN e
          BY <1>1, <2>1, <4>4
        <5>2. x \in DOMAIN hgf /\ rest[x] = hgf[x]
          BY <1>3, <1>5, <4>2, <5>1
        <5>3. QED BY <1>1, <1>4, <2>1, <4>2, <4>4, <5>2
      <4>5. QED BY <3>2, <4>3, <4>4
    <3>3. QED BY <3>1, <3>2
  <2>3. Strongest(maps)[x] = maps[i][x]
    <3>1. DOMAIN maps \subseteq Nat \ {0} /\ i \in DOMAIN maps
      BY <1>1
    <3>2. QED BY <2>1, <3>1, FirstOf
  <2>4. QED BY <2>2, <2>3
<1>10. Strongest(maps) = [x \in all |-> Strongest(maps)[x]]
  BY DEF Strongest
<1>11. env = Strongest(maps)
  BY <1>7, <1>8, <1>9, <1>10
<1>12. QED BY <1>11 DEF maps, env, rest, ba, hgf, edc

\* Whatever the files say: every app that a deployment hands to the VM has each
\* variable with the value of the strongest source that gives it one: its
\* environment section, its env_files, the secrets of the overlay, of the
\* manifest and of the secrets file, the variables of the overlay and of the
\* manifest, and those the project had (compose/parser.go:193-242,
\* manifest/parser.go:16-152, deploy.go:111-274, env.go:303-321).
THEOREM StrongestSourceWins ==
  ASSUME NEW project, {"env", "cpu"} \subseteq DOMAIN project,
         NEW m, {"env", "secrets", "environments"} \subseteq DOMAIN m,
         NEW overlay, NEW services, NEW files, NEW host,
         runDeploy(project, m, overlay, services, files, host).ok,
         NEW n \in DOMAIN runDeploy(project, m, overlay, services, files, host).is.apps
  PROVE  runDeploy(project, m, overlay, services, files, host).is.apps[n].env
           = Strongest(Sources(project, m, overlay, services[n], files, host))
<1> DEFINE l       == Load(m, files).is
           r       == Resolve(l, overlay).is
           p       == ProjectAfter(project, r)
           parsed  == ParseBytes(services, files, host).is
           apps    == runDeploy(project, m, overlay, services, files, host).is.apps
           base    == FromFiles(services[n].envFiles, files)
           section == substituteVars(parseEnvironment(services[n].environment).is, base, host)
           fromSecretsFile == IF m.secretsFile = "" THEN NoVars
                              ELSE loadSecretsFile(files[m.secretsFile])
           overlaySecrets  == IF overlay = "" THEN NoVars ELSE m.environments[overlay].secrets
           overlayEnv      == IF overlay = "" THEN NoVars ELSE m.environments[overlay].env
           ownSecrets      == Over(fromSecretsFile, m.secrets)
           secrets         == Over(ownSecrets, overlaySecrets)
<1>1. /\ Load(m, files).ok /\ Resolve(l, overlay).ok /\ ParseBytes(services, files, host).ok
      /\ apps = ToDeploy(p, r, parsed)
  BY DeployParts DEF Deployed, Left, Applied
<1>2. n \in DOMAIN parsed
  BY <1>1 DEF ToDeploy
<1>3. {"env", "cpu"} \subseteq DOMAIN parsed[n] /\ parsed[n].env = Over(base, section)
  BY <1>1, <1>2, ParsedService
<1>4. /\ l.env = m.env /\ l.environments = m.environments /\ DOMAIN l = DOMAIN m
      /\ l.secrets = IF m.secretsFile = "" THEN m.secrets ELSE ownSecrets
  BY <1>1, LoadedManifest
<1>5. /\ r.env = IF overlay = "" THEN m.env ELSE Over(m.env, overlayEnv)
      /\ r.secrets = IF overlay = "" THEN l.secrets ELSE Over(l.secrets, overlaySecrets)
  <2>1. /\ r.env = IF overlay = "" THEN l.env ELSE Over(l.env, l.environments[overlay].env)
        /\ r.secrets = IF overlay = "" THEN l.secrets
                       ELSE Over(l.secrets, l.environments[overlay].secrets)
    <3>1. {"env", "secrets"} \subseteq DOMAIN l /\ Resolve(l, overlay).ok
      BY <1>1, <1>4
    <3> HIDE DEF l
    <3>2. QED BY <3>1, ResolvedManifest
  <2>2. QED BY <1>4, <2>1
<1>6. /\ DOMAIN r.env = DOMAIN Over(m.env, overlayEnv)
      /\ \A x \in DOMAIN r.env : r.env[x] = Over(m.env, overlayEnv)[x]
  <2>1. CASE overlay = ""
    <3>1. r.env = m.env /\ overlayEnv = NoVars
      BY <1>5, <2>1
    <3> HIDE DEF r, overlayEnv
    <3>2. QED BY <3>1, NothingOver
  <2>2. CASE overlay # ""
    <3>1. r.env = Over(m.env, overlayEnv)
      BY <1>5, <2>2
    <3> HIDE DEF r, overlayEnv
    <3>2. QED BY <3>1
  <2>3. QED BY <2>1, <2>2
<1>7. /\ DOMAIN l.secrets = DOMAIN ownSecrets
      /\ \A x \in DOMAIN l.secrets : l.secrets[x] = ownSecrets[x]
  BY <1>4, NothingOver
<1>8. /\ DOMAIN r.secrets = DOMAIN secrets
      /\ \A x \in DOMAIN r.secrets : r.secrets[x] = secrets[x]
  <2>1. CASE overlay = ""
    <3>1. DOMAIN secrets = DOMAIN ownSecrets /\ \A x \in DOMAIN ownSecrets : secrets[x] = ownSecrets[x]
      BY <2>1, NothingOver
    <3>2. r.secrets = l.secrets
      BY <1>5, <2>1
    <3>3. QED BY <1>7, <3>1, <3>2
  <2>2. CASE overlay # ""
    <3>1. r.secrets = Over(l.secrets, overlaySecrets)
      BY <1>5, <2>2
    <3> HIDE DEF l, r, ownSecrets, overlaySecrets
    <3>2. QED BY <1>7, <3>1 DEF Over
  <2>3. QED BY <2>1, <2>2
<1>9. p.env = Over(Over(project.env, Over(m.env, overlayEnv)), secrets)
  <2>1. p.env = Over(Over(project.env, r.env), r.secrets)
    BY ProjectWithManifest
  <2> HIDE DEF l, r, p, overlayEnv, secrets
  <2>2. Over(project.env, r.env) = Over(project.env, Over(m.env, overlayEnv))
    BY <1>6, SameContents
  <2>3. Over(Over(project.env, r.env), r.secrets) = Over(Over(project.env, r.env), secrets)
    BY <1>8, SameContents
  <2>4. QED BY <2>1, <2>2, <2>3
<1>10. apps[n].env = Over(p.env, Over(base, section))
  <2>1. ToDeploy(p, r, parsed)[n].env = Over(p.env, parsed[n].env)
    BY <1>1, <1>3, DeployedApp
  <2>2. QED BY <1>1, <1>3, <2>1
<1>11. Sources(project, m, overlay, services[n], files, host) =
          <<section, base, overlaySecrets, m.secrets, fromSecretsFile, overlayEnv, m.env,
            project.env>>
  BY DEF Sources
<1> HIDE DEF p, apps, base, section, fromSecretsFile, overlaySecrets, overlayEnv
<1>12. Over(Over(Over(project.env, Over(m.env, overlayEnv)), secrets), Over(base, section))
         = Strongest(<<section, base, overlaySecrets, m.secrets, fromSecretsFile, overlayEnv,
                       m.env, project.env>>)
  BY Layered
<1>13. QED BY <1>9, <1>10, <1>11, <1>12 DEF apps

\* No app gets more CPUs than its project's VM has, whatever number the compose
\* file asks for (deploy.go:257-267).
THEOREM CPUsCapped ==
  ASSUME NEW project, {"env", "cpu"} \subseteq DOMAIN project, project.cpu \in Nat \ {0},
         NEW m, NEW overlay, NEW services, NEW files, NEW host,
         \A n \in DOMAIN services :
            services[n].limits.cpus.number.ok => services[n].limits.cpus.number.is \in Int,
         runDeploy(project, m, overlay, services, files, host).ok,
         NEW n \in DOMAIN runDeploy(project, m, overlay, services, files, host).is.apps
  PROVE  runDeploy(project, m, overlay, services, files, host).is.apps[n].cpu <= project.cpu
<1> DEFINE r      == Applied(m, overlay, files)
           p      == Left(project, m, overlay, files)
           parsed == ParseBytes(services, files, host).is
           apps   == runDeploy(project, m, overlay, services, files, host).is.apps
<1>1. ParseBytes(services, files, host).ok /\ apps = ToDeploy(p, r, parsed)
  BY DeployParts DEF Deployed
<1>2. n \in DOMAIN parsed
  BY <1>1 DEF ToDeploy
<1>3. /\ n \in DOMAIN services /\ {"env", "cpu"} \subseteq DOMAIN parsed[n]
      /\ parseResources(services[n].limits).ok
      /\ parsed[n].cpu = parseResources(services[n].limits).is.cpu
  BY <1>1, <1>2, ParsedService
<1>4. parsed[n].cpu \in Int
  BY <1>3 DEF parseResources, Ok, Bad
<1>5. p.cpu = project.cpu
  BY ProjectWithManifest DEF Left
<1>6. apps[n].cpu = IF p.cpu > 0 /\ parsed[n].cpu > p.cpu THEN p.cpu ELSE parsed[n].cpu
  <2>1. ToDeploy(p, r, parsed)[n].cpu =
           IF p.cpu > 0 /\ parsed[n].cpu > p.cpu THEN p.cpu ELSE parsed[n].cpu
    BY <1>1, <1>3, DeployedApp
  <2>2. QED BY <1>1, <2>1
<1>7. QED BY <1>4, <1>5, <1>6
=============================================================================
