----------------------------- MODULE Commands_proofs -----------------------------
(* Proofs about Commands for any processes, apps, values, keys and scopes.  *)
EXTENDS Commands, SequenceTheorems, TLAPS

-----------------------------------------------------------------------------
(* Lists of calls.                                                          *)

LEMMA OneCall ==
  ASSUME NEW r, NEW x \in Calls, MayCall(r, x), x \notin Altering \cup {"CheckApp"}
  PROVE  <<x>> \in Seq(Calls) /\ IsRest(r, <<x>>)
BY DEF IsRest

\* What is left after the first call.
LEMMA RestTail ==
  ASSUME NEW r, NEW s \in Seq(Calls), s # <<>>, IsRest(r, s)
  PROVE  /\ Head(s) \in Calls /\ MayCall(r, Head(s))
         /\ Tail(s) \in Seq(Calls) /\ IsRest(r, Tail(s))
         /\ Tail(s) = <<>> => Head(s) \notin Altering \cup {"CheckApp"}
         /\ Tail(s) # <<>> => MayFollow(r, Head(s), Head(Tail(s)))
<1> DEFINE t == Tail(s)
<1>1. /\ Head(s) \in Calls /\ t \in Seq(Calls) /\ Len(t) = Len(s) - 1
      /\ \A i \in 1..Len(t) : t[i] = s[i + 1]
  BY HeadTailProperties
<1>2. Len(s) \in Nat \ {0} /\ Head(s) = s[1]
  BY EmptySeq
<1>3. t = <<>> <=> Len(s) = 1
  <2>1. Len(t) = 0 <=> t = <<>>
    BY <1>1, EmptySeq
  <2>2. Len(t) = Len(s) - 1 /\ Len(s) \in Nat \ {0}
    BY <1>1, <1>2
  <2> HIDE DEF t
  <2>3. QED BY <2>1, <2>2
<1>4. t # <<>> => Head(t) = s[2] /\ t[Len(t)] = s[Len(s)]
  <2> SUFFICES ASSUME t # <<>> PROVE Head(t) = s[2] /\ t[Len(t)] = s[Len(s)]
    OBVIOUS
  <2>1. Len(t) \in Nat \ {0} /\ Head(t) = t[1]
    BY <1>1, EmptySeq
  <2> HIDE DEF t
  <2>2. QED BY <1>1, <1>2, <2>1
<1> HIDE DEF t
<1>5. /\ \A i \in 1..Len(s) : MayCall(r, s[i])
      /\ \A i \in 1..Len(s) - 1 : MayFollow(r, s[i], s[i + 1])
      /\ s[Len(s)] \notin Altering \cup {"CheckApp"}
  BY DEF IsRest
<1>6. MayCall(r, Head(s))
  BY <1>2, <1>5
<1>7. \A i \in 1..Len(t) : MayCall(r, t[i])
  BY <1>1, <1>2, <1>5
<1>8. ASSUME NEW i \in 1..Len(t) - 1
      PROVE  MayFollow(r, t[i], t[i + 1])
  <2>1. i \in 1..Len(t) /\ i + 1 \in 1..Len(t) /\ i + 1 \in 1..Len(s) - 1
    BY <1>1, <1>2
  <2>2. t[i] = s[i + 1] /\ t[i + 1] = s[(i + 1) + 1]
    BY <1>1, <2>1
  <2>3. QED BY <1>5, <2>1, <2>2
<1>9. IsRest(r, t)
  BY <1>4, <1>5, <1>7, <1>8 DEF IsRest
<1>10. t = <<>> => Head(s) \notin Altering \cup {"CheckApp"}
  BY <1>2, <1>3, <1>5
<1>11. t # <<>> => MayFollow(r, Head(s), Head(t))
  <2> SUFFICES ASSUME t # <<>> PROVE MayFollow(r, s[1], s[2])
    BY <1>2, <1>4
  <2>1. Len(s) # 1 /\ Len(s) \in Nat \ {0}
    BY <1>2, <1>3
  <2>2. \A n \in Nat \ {0} : n # 1 => 1 \in 1..n - 1
    OBVIOUS
  <2>3. 1 \in 1..Len(s) - 1
    BY <2>1, <2>2
  <2>4. QED BY <1>2, <1>5, <2>3
<1>12. QED BY <1>1, <1>6, <1>9, <1>10, <1>11 DEF t

\* One list after another.
LEMMA RestConcat ==
  ASSUME NEW r, NEW s \in Seq(Calls), NEW t \in Seq(Calls), s # <<>>,
         IsRest(r, s), IsRest(r, t), t # <<>> => MayFollow(r, s[Len(s)], Head(t))
  PROVE  /\ s \o t \in Seq(Calls) /\ IsRest(r, s \o t)
         /\ s \o t # <<>> /\ Head(s \o t) = Head(s)
<1> DEFINE u == s \o t
<1>1. /\ u \in Seq(Calls) /\ Len(u) = Len(s) + Len(t)
      /\ \A i \in 1..Len(s) + Len(t) : u[i] = IF i <= Len(s) THEN s[i] ELSE t[i - Len(s)]
  BY ConcatProperties
<1>2. Len(s) \in Nat \ {0} /\ Head(s) = s[1] /\ Len(t) \in Nat
  BY EmptySeq, LenProperties
<1>3. Len(t) = 0 <=> t = <<>>
  BY EmptySeq
<1>4. t # <<>> => Head(t) = t[1]
  BY EmptySeq
<1> HIDE DEF u
<1>5. u # <<>> /\ Head(u) = Head(s)
  <2>1. u # <<>>
    BY <1>1, <1>2, EmptySeq
  <2>2. Head(u) = u[1]
    BY <1>1, <2>1, EmptySeq
  <2>3. QED BY <1>1, <1>2, <2>1, <2>2
<1>6. \A i \in 1..Len(u) : MayCall(r, u[i])
  <2> SUFFICES ASSUME NEW i \in 1..Len(u) PROVE MayCall(r, u[i])
    OBVIOUS
  <2>1. CASE i <= Len(s)
    <3>1. i \in 1..Len(s) /\ u[i] = s[i]
      BY <1>1, <1>2, <2>1
    <3>2. QED BY <3>1 DEF IsRest
  <2>2. CASE ~ i <= Len(s)
    <3>1. i - Len(s) \in 1..Len(t) /\ u[i] = t[i - Len(s)]
      BY <1>1, <1>2, <2>2
    <3>2. QED BY <3>1 DEF IsRest
  <2>3. QED BY <2>1, <2>2
<1>7. \A i \in 1..Len(u) - 1 : MayFollow(r, u[i], u[i + 1])
  <2> SUFFICES ASSUME NEW i \in 1..Len(u) - 1 PROVE MayFollow(r, u[i], u[i + 1])
    OBVIOUS
  <2>1. CASE i < Len(s)
    <3>1. i \in 1..Len(s) - 1 /\ u[i] = s[i] /\ u[i + 1] = s[i + 1]
      BY <1>1, <1>2, <2>1
    <3>2. QED BY <3>1 DEF IsRest
  <2>2. CASE i = Len(s)
    <3>1. u[i] = s[i] /\ u[i + 1] = t[1] /\ Len(t) # 0
      <4>1. /\ i \in 1..Len(s) + Len(t) /\ i + 1 \in 1..Len(s) + Len(t) /\ Len(t) # 0
            /\ i <= Len(s) /\ ~(i + 1 <= Len(s)) /\ (i + 1) - Len(s) = 1
        BY <1>1, <1>2, <2>2
      <4>2. QED BY <1>1, <4>1
    <3>2. QED BY <1>3, <1>4, <2>2, <3>1
  <2>3. CASE i > Len(s)
    <3> DEFINE j == i - Len(s)
    <3>1. j \in 1..Len(t) - 1 /\ u[i] = t[j] /\ u[i + 1] = t[j + 1]
      BY <1>1, <1>2, <2>3
    <3> HIDE DEF j
    <3>2. QED BY <3>1 DEF IsRest
  <2>4. QED BY <1>2, <2>1, <2>2, <2>3
<1>8. u[Len(u)] \notin Altering \cup {"CheckApp"}
  <2>1. CASE t = <<>>
    <3>1. u[Len(u)] = s[Len(s)]
      BY <1>1, <1>2, <1>3, <2>1
    <3>2. QED BY <3>1 DEF IsRest
  <2>2. CASE t # <<>>
    <3>1. u[Len(u)] = t[Len(t)]
      BY <1>1, <1>2, <1>3, <2>2
    <3>2. QED BY <2>2, <3>1 DEF IsRest
  <2>3. QED BY <2>1, <2>2
<1>9. IsRest(r, u)
  BY <1>6, <1>7, <1>8 DEF IsRest
<1>10. QED BY <1>1, <1>5, <1>9 DEF u

\* A list that is legal for a command is legal for one of the same name that
\* takes the same way and works on some app as well.
LEMMA RestSame ==
  ASSUME NEW r, NEW q, NEW s, IsRest(r, s), q.op = r.op, q.api = r.api,
         q.app = None => r.app = None
  PROVE  IsRest(q, s)
BY DEF IsRest, MayCall, MayFollow, Brings
\* Lists that commands begin with.
Starts     == {"Find", "FindProject", "CreateProject", "FindToDelete", "Show", "FindOrCreate"}
Fits(r, s) == s \in Seq(Calls) /\ IsRest(r, s) /\ s # <<>> /\ Head(s) \in Starts

\* Commands about the project and its VM.
LEMMA ProjectLists ==
  ASSUME NEW r
  PROVE  /\ Fits(r, Create) /\ Fits(r, Delete) /\ Fits(r, Stop) /\ Fits(r, StopAPI)
         /\ Fits(r, Start) /\ Fits(r, Restart) /\ Fits(r, Edit) /\ Fits(r, EnvDelete)
         /\ Fits(r, EnvList) /\ Fits(r, ProjectList) /\ Fits(r, ProjectInfo)
         /\ Fits(r, ProjectLogs) /\ Fits(r, AppList) /\ Fits(r, PushImage)
<1> USE DEF Calls, AppCalls, Starts, Fits, IsRest, MayCall, MayFollow, Altering, Saving, Bringing
<1>1. Fits(r, Create)
  BY DEF Create
<1>2. Fits(r, Delete)
  BY DEF Delete
<1>3. Fits(r, Stop)
  BY DEF Stop
<1>4. Fits(r, StopAPI)
  BY DEF StopAPI
<1>5. Fits(r, Start)
  BY DEF Start
<1>6. Fits(r, Restart)
  BY DEF Restart
<1>7. Fits(r, Edit)
  BY DEF Edit
<1>8. Fits(r, EnvDelete)
  BY DEF EnvDelete
<1>9. Fits(r, EnvList)
  BY DEF EnvList
<1>10. Fits(r, ProjectList)
  BY DEF ProjectList
<1>11. Fits(r, ProjectInfo)
  BY DEF ProjectInfo
<1>12. Fits(r, ProjectLogs)
  BY DEF ProjectLogs
<1>13. Fits(r, AppList)
  BY DEF AppList
<1>14. Fits(r, PushImage)
  BY DEF PushImage
<1> HIDE DEF Fits
<1> QED BY <1>1, <1>2, <1>3, <1>4, <1>5, <1>6, <1>7, <1>8, <1>9, <1>10, <1>11, <1>12, <1>13, <1>14

\* Commands about one app.
LEMMA AppLists ==
  ASSUME NEW r, r.app # None, r.op \notin Deploys
  PROVE  /\ Fits(r, AppCreate) /\ Fits(r, AppEdit) /\ Fits(r, AppStop) /\ Fits(r, AppDelete)
         /\ Fits(r, AppInfo) /\ Fits(r, AppLogs)
<1> USE DEF Calls, AppCalls, Starts, Fits, IsRest, MayCall, MayFollow, Altering, Saving, Bringing, Brings
<1>1. Fits(r, AppCreate)
  BY DEF AppCreate
<1>2. Fits(r, AppEdit)
  BY DEF AppEdit
<1>3. Fits(r, AppStop)
  BY DEF AppStop
<1>4. Fits(r, AppDelete)
  BY DEF AppDelete
<1>5. Fits(r, AppInfo)
  BY DEF AppInfo
<1>6. Fits(r, AppLogs)
  BY DEF AppLogs
<1> HIDE DEF Fits
<1> QED BY <1>1, <1>2, <1>3, <1>4, <1>5, <1>6

\* Deployments of one app by the command line itself.
LEMMA DeployLists ==
  ASSUME NEW r, r.app # None, r.op \in Deploys, r.op \notin ForServices
  PROVE  /\ Fits(r, AppDeploy) /\ Fits(r, AppDeployImage)
<1> USE DEF Calls, AppCalls, Starts, Fits, IsRest, MayCall, MayFollow, Altering, Saving, Bringing, Brings
<1>1. Fits(r, AppDeploy)
  BY DEF AppDeploy
<1>2. Fits(r, AppDeployImage)
  BY DEF AppDeployImage
<1> HIDE DEF Fits
<1> QED BY <1>1, <1>2

\* Deployments of one app through the server.
LEMMA DeployAPILists ==
  ASSUME NEW r, r.app # None, r.op \in Deploys, r.api
  PROVE  /\ Fits(r, AppDeployAPI) /\ Fits(r, AppDeployImageAPI)
<1> USE DEF Calls, AppCalls, Starts, Fits, IsRest, MayCall, MayFollow, Altering, Saving, Bringing, Brings
<1>1. Fits(r, AppDeployAPI)
  BY DEF AppDeployAPI
<1>2. Fits(r, AppDeployImageAPI)
  BY DEF AppDeployImageAPI
<1> HIDE DEF Fits
<1> QED BY <1>1, <1>2

\* The services of a compose file, by the command line itself.
LEMMA ComposeUpList ==
  ASSUME NEW r, r.op \in ForServices
  PROVE  /\ Fits(r, ComposeUp)
BY DEF ComposeUp, Calls, AppCalls, Starts, Fits, IsRest, MayCall, MayFollow, Altering, Saving, Bringing

\* The services of a compose file, through the server or taken down.
LEMMA ServiceLists ==
  ASSUME NEW r, ~Brings(r), r.op \in ForServices
  PROVE  /\ Fits(r, ComposeUpAPI) /\ Fits(r, ComposeDown) /\ Fits(r, ComposeDownAPI)
<1> USE DEF Calls, AppCalls, Starts, Fits, IsRest, MayCall, MayFollow, Altering, Saving, Bringing
<1>1. Fits(r, ComposeUpAPI)
  BY DEF ComposeUpAPI
<1>2. Fits(r, ComposeDown)
  BY DEF ComposeDown
<1>3. Fits(r, ComposeDownAPI)
  BY DEF ComposeDownAPI
<1> HIDE DEF Fits
<1> QED BY <1>1, <1>2, <1>3

\* Concatenations of short lists.
LEMMA ShortLists ==
  ASSUME NEW a \in Calls, NEW b \in Calls, NEW d \in Calls
  PROVE  /\ <<a>> \o <<>> = <<a>> /\ <<>> \o <<a, b>> = <<a, b>>
         /\ <<a>> \o <<b>> = <<a, b>> /\ <<a>> \o <<b, d>> = <<a, b, d>>
<1>1. /\ <<>> \in Seq(Calls) /\ <<a>> \in Seq(Calls) /\ <<b>> \in Seq(Calls)
      /\ <<a, b>> \in Seq(Calls) /\ <<b, d>> \in Seq(Calls)
      /\ <<a, b, d>> \in Seq(Calls)
  OBVIOUS
<1>2. <<a>> \o <<>> = <<a>> /\ <<>> \o <<a, b>> = <<a, b>>
  BY <1>1, ConcatEmptySeq
<1>3. <<a>> \o <<b>> = <<a, b>>
  <2> DEFINE u == <<a>> \o <<b>>
             v == <<a, b>>
  <2>1. u \in Seq(Calls) /\ Len(u) = 2 /\ u[1] = a /\ u[2] = b
    BY <1>1, ConcatProperties
  <2>2. v \in Seq(Calls) /\ Len(v) = 2 /\ v[1] = a /\ v[2] = b
    BY <1>1
  <2> HIDE DEF u, v
  <2>3. \A i \in 1..2 : u[i] = v[i]
    <3>1. \A i \in 1..2 : i = 1 \/ i = 2
      OBVIOUS
    <3>2. QED BY <2>1, <2>2, <3>1
  <2>4. u = v
    BY <2>1, <2>2, <2>3, SeqEqual
  <2>5. QED BY <2>4 DEF u, v
<1>4. <<a>> \o <<b, d>> = <<a, b, d>>
  <2> DEFINE u == <<a>> \o <<b, d>>
             v == <<a, b, d>>
  <2>1. u \in Seq(Calls) /\ Len(u) = 3 /\ u[1] = a /\ u[2] = b /\ u[3] = d
    BY <1>1, ConcatProperties
  <2>2. v \in Seq(Calls) /\ Len(v) = 3 /\ v[1] = a /\ v[2] = b /\ v[3] = d
    BY <1>1
  <2> HIDE DEF u, v
  <2>3. \A i \in 1..3 : u[i] = v[i]
    <3>1. \A i \in 1..3 : i = 1 \/ i = 2 \/ i = 3
      OBVIOUS
    <3>2. QED BY <2>1, <2>2, <3>1
  <2>4. u = v
    BY <2>1, <2>2, <2>3, SeqEqual
  <2>5. QED BY <2>4 DEF u, v
<1>5. QED BY <1>2, <1>3, <1>4

LEMMA OneAndTwo ==
  ASSUME NEW a \in Calls, NEW b \in Calls, NEW d \in Calls
  PROVE  <<a>> \o <<b, d>> = <<a, b, d>>
BY ShortLists

LEMMA AndNothing ==
  ASSUME NEW a \in Calls
  PROVE  <<a>> \o <<>> = <<a>>
BY ShortLists

LEMMA OneAndOne ==
  ASSUME NEW a \in Calls, NEW b \in Calls
  PROVE  <<a>> \o <<b>> = <<a, b>>
BY ShortLists

LEMMA TwoAndTwo ==
  ASSUME NEW a \in Calls, NEW b \in Calls, NEW d \in Calls, NEW e \in Calls
  PROVE  <<a, b>> \o <<d, e>> = <<a, b, d, e>>
<1>0. /\ <<a, b>> \in Seq(Calls) /\ <<d, e>> \in Seq(Calls) /\ <<a, b, d, e>> \in Seq(Calls)
      /\ Len(<<a, b>>) = 2 /\ Len(<<d, e>>) = 2
  OBVIOUS
<1> DEFINE u == <<a, b>> \o <<d, e>>
           v == <<a, b, d, e>>
<1>1. u \in Seq(Calls) /\ Len(u) = 4 /\ u[1] = a /\ u[2] = b /\ u[3] = d /\ u[4] = e
  BY <1>0, ConcatProperties
<1>2. v \in Seq(Calls) /\ Len(v) = 4 /\ v[1] = a /\ v[2] = b /\ v[3] = d /\ v[4] = e
  BY <1>0
<1> HIDE DEF u, v
<1>3. \A i \in 1..4 : u[i] = v[i]
  <2>1. \A i \in 1..4 : i = 1 \/ i = 2 \/ i = 3 \/ i = 4
    OBVIOUS
  <2>2. QED BY <1>1, <1>2, <2>1
<1>4. u = v
  BY <1>1, <1>2, <1>3, SeqEqual
<1>5. QED BY <1>4 DEF u, v

LEMMA ManifestLists ==
  ASSUME NEW r
  PROVE  /\ Fits(r, EnvSet(r)) /\ Fits(r, Manifest(r))
         /\ Manifest(r)[Len(Manifest(r))] = "UpdateProject"
<1> DEFINE L(f) == <<f, "ReadKey", "SetEnv", "UpdateProject">>
           M(f) == <<f, "SetEnv", "UpdateProject">>
<1>1. ASSUME NEW f \in {"FindProject", "FindOrCreate"}
      PROVE  <<f>> \o Vault(r) \o <<"SetEnv", "UpdateProject">> = IF r.secret THEN L(f) ELSE M(f)
  <2>1. f \in Calls /\ "ReadKey" \in Calls /\ "SetEnv" \in Calls /\ "UpdateProject" \in Calls
    BY DEF Calls
  <2> DEFINE t == <<"SetEnv", "UpdateProject">>
  <2>2. CASE r.secret
    <3>1. <<f>> \o <<"ReadKey">> = <<f, "ReadKey">> /\ <<f, "ReadKey">> \o t = L(f)
      BY <2>1, OneAndOne, TwoAndTwo
    <3>2. QED BY <2>2, <3>1 DEF Vault
  <2>3. CASE ~r.secret
    <3>1. <<f>> \o <<>> = <<f>> /\ <<f>> \o t = M(f)
      BY <2>1, AndNothing, OneAndTwo
    <3>2. QED BY <2>3, <3>1 DEF Vault
  <2>4. QED BY <2>2, <2>3
<1>2. ASSUME NEW f \in {"FindProject", "FindOrCreate"}
      PROVE  Fits(r, L(f)) /\ Fits(r, M(f))
  <2> USE DEF Calls, AppCalls, Starts, Fits, IsRest, MayCall, MayFollow, Altering, Saving, Bringing
  <2>1. Fits(r, L(f))
    OBVIOUS
  <2>2. Fits(r, M(f))
    OBVIOUS
  <2> QED BY <2>1, <2>2
<1>3. L("FindOrCreate")[Len(L("FindOrCreate"))] = "UpdateProject"
  OBVIOUS
<1>4. M("FindOrCreate")[Len(M("FindOrCreate"))] = "UpdateProject"
  OBVIOUS
<1> HIDE DEF L, M
<1>5. QED BY <1>1, <1>2, <1>3, <1>4 DEF EnvSet, Manifest

LEMMA DeployList ==
  ASSUME NEW r, r.op \in ForServices
  PROVE  Fits(r, Deploy(r))
<1>1. MayFollow(r, "UpdateProject", Head(ComposeUp)) /\ ComposeUp \in Seq(Calls) /\ IsRest(r, ComposeUp)
  BY ComposeUpList DEF ComposeUp, MayFollow, Altering, Saving, Bringing, Fits
<1>2. QED BY <1>1, ManifestLists, RestConcat DEF Deploy, Fits

LEMMA DeployAPIList ==
  ASSUME NEW r, ~Brings(r), r.op \in ForServices
  PROVE  Fits(r, DeployAPI(r))
<1>1. /\ MayFollow(r, "UpdateProject", Head(ComposeUpAPI))
      /\ ComposeUpAPI \in Seq(Calls) /\ IsRest(r, ComposeUpAPI)
  BY ServiceLists DEF ComposeUpAPI, MayFollow, Altering, Saving, Bringing, Fits
<1>2. QED BY <1>1, ManifestLists, RestConcat DEF DeployAPI, Fits

\* A command with arguments that fit its name.
Ready(r) == /\ r.op \in Ops /\ r.api \in BOOLEAN
            /\ r.op \in ForOne => r.app # None

\* Every command begins with a program of its own.
LEMMA Programs ==
  ASSUME NEW r, Ready(r)
  PROVE  Fits(r, Program(r))
<1> USE DEF Ready
<1>1. CASE r.op \in {"create", "delete", "stop", "start", "restart", "edit"}
  <2>1. Program(r) \in {Create, Delete, StopAPI, Stop, Start, Restart, Edit}
    BY <1>1 DEF Program
  <2>2. QED BY <2>1, ProjectLists
<1>2. CASE r.op \in {"env delete", "env list", "project list", "project info", "project logs",
                     "app list", "compose ps", "push-image"}
  <2>1. Program(r) \in {EnvDelete, EnvList, ProjectList, ProjectInfo, ProjectLogs, AppList,
                        PushImage}
    BY <1>2 DEF Program
  <2>2. QED BY <2>1, ProjectLists
<1>3. CASE r.op \in {"app create", "app edit", "app stop", "app delete", "app info", "app logs"}
  <2>1. Program(r) \in {AppCreate, AppEdit, AppStop, AppDelete, AppInfo, AppLogs}
    BY <1>3 DEF Program
  <2>2. r.app # None /\ r.op \notin Deploys
    BY <1>3 DEF ForOne, Deploys
  <2>3. QED BY <2>1, <2>2, AppLists
<1>4. CASE r.op \in {"app deploy", "app deploy image"}
  <2>1. Program(r) \in IF r.api THEN {AppDeployAPI, AppDeployImageAPI} ELSE {AppDeploy, AppDeployImage}
    BY <1>4 DEF Program
  <2>2. r.app # None /\ r.op \in Deploys /\ r.op \notin ForServices
    BY <1>4 DEF ForOne, Deploys, ForServices
  <2>3. QED BY <2>1, <2>2, DeployLists, DeployAPILists
<1>5. CASE r.op = "env set"
  <2>1. Program(r) = EnvSet(r)
    BY <1>5 DEF Program
  <2>2. QED BY <2>1, ManifestLists
<1>6. CASE r.op = "compose down"
  <2>1. Program(r) \in {ComposeDownAPI, ComposeDown} /\ ~Brings(r) /\ r.op \in ForServices
    BY <1>6 DEF Program, Brings, Deploys, ForServices
  <2>2. QED BY <2>1, ServiceLists
<1>7. CASE r.op \in {"compose up", "deploy"}
  <2>1. Program(r) \in IF r.api THEN {ComposeUpAPI, DeployAPI(r)} ELSE {ComposeUp, Deploy(r)}
    BY <1>7 DEF Program
  <2>2. (r.api => ~Brings(r)) /\ r.op \in ForServices
    BY <1>7 DEF Brings, ForServices
  <2>3. QED BY <2>1, <2>2, ServiceLists, ComposeUpList, DeployList, DeployAPIList
<1>8. QED BY <1>1, <1>2, <1>3, <1>4, <1>5, <1>6, <1>7 DEF Ops, ForServices, ForOne

\* What comes for a service.
ServiceList(q, s) == /\ s \in Seq(Calls) /\ IsRest(q, s) /\ s # <<>>
                     /\ Head(s) \in {"GetApp", "RemoveApp", "CheckApp", "SetApp"}
                     /\ s[Len(s)] \in {"DeployApp", "DeleteApp"}
                     /\ Brings(q) => s[Len(s)] = "DeployApp"

LEMMA DownLists ==
  ASSUME NEW q, q.app # None, ~Brings(q)
  PROVE  /\ ServiceList(q, <<"GetApp", "RemoveApp", "DeleteApp">>)
         /\ ServiceList(q, <<"RemoveApp", "DeleteApp">>)
BY DEF ServiceList, Calls, AppCalls, IsRest, MayCall, MayFollow, Altering, Saving, Bringing

LEMMA UpList ==
  ASSUME NEW q, q.app # None, q.op \in Deploys
  PROVE  ServiceList(q, <<"SetApp", "DeployApp">>)
BY DEF ServiceList, Calls, AppCalls, IsRest, MayCall, MayFollow, Altering, Saving, Bringing

LEMMA UpAPIList ==
  ASSUME NEW q, q.app # None, q.op \in Deploys, ~Brings(q)
  PROVE  ServiceList(q, <<"CheckApp", "SetApp", "GetApp", "SaveApp", "DeployApp">>)
BY DEF ServiceList, Calls, AppCalls, IsRest, MayCall, MayFollow, Altering, Saving, Bringing

LEMMA ServicePrograms ==
  ASSUME NEW q, q.op \in ForServices, q.app # None
  PROVE  ServiceList(q, ForApp(q))
<1> DEFINE A == <<"GetApp", "RemoveApp", "DeleteApp">>
           B == <<"RemoveApp", "DeleteApp">>
           C == <<"CheckApp", "SetApp", "GetApp", "SaveApp", "DeployApp">>
           D == <<"SetApp", "DeployApp">>
<1>1. "GetApp" \in Calls /\ "RemoveApp" \in Calls /\ "DeleteApp" \in Calls
  BY DEF Calls, AppCalls
<1>2. <<"GetApp">> \o B = A
  BY <1>1, OneAndTwo
<1>3. <<>> \o B = B
  BY <1>1, ShortLists
<1>4. ForApp(q) = IF q.op = "compose down" THEN (IF q.api THEN <<"GetApp">> ELSE <<>>) \o B
                  ELSE IF q.api THEN C ELSE D
  BY DEF ForApp
<1>5. q.op # "compose down" => q.op \in Deploys
  BY DEF Deploys, ForServices
<1>6. q.op = "compose down" \/ q.api => ~Brings(q)
  BY DEF Brings, Deploys
<1>7. ~Brings(q) => ServiceList(q, A) /\ ServiceList(q, B)
  BY DownLists
<1>8. q.op \in Deploys => ServiceList(q, D)
  BY UpList
<1>9. q.op \in Deploys /\ ~Brings(q) => ServiceList(q, C)
  BY UpAPIList
<1> HIDE DEF A, B, C, D
<1>10. QED BY <1>2, <1>3, <1>4, <1>5, <1>6, <1>7, <1>8, <1>9
-----------------------------------------------------------------------------
(* What a step makes of the commands.                                       *)

\* Two commands that differ in what they changed at most.
Alike(q, r) == /\ q.op = r.op /\ q.api = r.api /\ q.todo = r.todo /\ q.p = r.p /\ q.app = r.app
               /\ q.left = r.left /\ q.val = r.val /\ q.secret = r.secret /\ q.key = r.key
               /\ q.clear = r.clear /\ q.got = r.got /\ q.cpu = r.cpu /\ q.disk = r.disk
               /\ q.alone = r.alone

First(r, x) == r.todo # <<>> /\ Head(r.todo) = x

\* The command of c goes on as r, with E changed so far, and the others as they were.
Moves(c, r, E) ==
    /\ cmd' \in [Clients -> Command]
    /\ cmd'[c] = Changing(r, E)
    /\ \A d \in Clients \ {c} : /\ Alike(cmd'[d], cmd[d]) /\ cmd'[d].eff \subseteq cmd[d].eff
                                /\ cmd'[d] = Idle <=> cmd[d] = Idle

LEMMA IdleType == Idle \in Command /\ Idle.op = "idle" /\ Idle.todo = <<>> /\ Idle.eff = {}
BY DEF Idle, Command, AppDefs, MaxDisk

LEMMA NotOps == "idle" \notin Ops
BY DEF Ops, ForServices, ForOne

LEMMA WithEff ==
  ASSUME NEW r \in Command, NEW E \in SUBSET Items
  PROVE  LET q == [r EXCEPT !.eff = E] IN q \in Command /\ q.eff = E /\ Alike(q, r)
BY DEF Command, Alike

LEMMA WithLessEff ==
  ASSUME NEW r \in Command, r.op = "idle" <=> r = Idle, NEW E \in SUBSET r.eff
  PROVE  LET q == [r EXCEPT !.eff = E]
         IN  /\ q \in Command /\ q.eff = E /\ Alike(q, r)
             /\ q = Idle <=> r = Idle
<1> DEFINE q == [r EXCEPT !.eff = E]
<1>1. E \in SUBSET Items
  BY DEF Command
<1>2. q \in Command /\ q.eff = E /\ Alike(q, r)
  BY <1>1, WithEff
<1>3. ASSUME q = Idle PROVE r = Idle
  BY <1>2, <1>3, IdleType DEF Alike
<1>4. ASSUME r = Idle PROVE q = Idle
  <2>1. E = {}
    BY <1>4, IdleType
  <2>2. [Idle EXCEPT !.eff = Idle.eff] = Idle
    BY IdleType DEF Command
  <2>3. QED BY <1>4, <2>1, <2>2, IdleType
<1>5. QED BY <1>2, <1>3, <1>4

LEMMA ChangingType ==
  ASSUME NEW r \in Command, NEW E \in SUBSET Items
  PROVE  /\ Changing(r, E) \in Command /\ Alike(Changing(r, E), r)
         /\ r = Idle => Changing(r, E) = Idle
         /\ r # Idle => Changing(r, E).eff = E
<1>1. CASE r = Idle
  BY <1>1 DEF Changing, Alike
<1>2. CASE r # Idle
  BY <1>2, WithEff DEF Changing
<1>3. QED BY <1>1, <1>2

LEMMA OwnChanging ==
  ASSUME NEW r \in Command
  PROVE  Changing(r, r.eff) = r
<1>1. [r EXCEPT !.eff = r.eff] = r
  BY DEF Command
<1>2. QED BY <1>1 DEF Changing

LEMMA BecomesMoves ==
  ASSUME Typed, NEW c \in Clients, NEW r \in Command, NEW E \in SUBSET Items,
         Becomes(c, Changing(r, E))
  PROVE  /\ Moves(c, r, E)
         /\ \A d \in Clients \ {c} : cmd'[d] = cmd[d]
<1>1. Changing(r, E) \in Command
  BY ChangingType
<1>2. cmd \in [Clients -> Command]
  BY DEF Typed
<1>3. /\ cmd' \in [Clients -> Command] /\ cmd'[c] = Changing(r, E)
      /\ \A d \in Clients \ {c} : cmd'[d] = cmd[d]
  BY <1>1, <1>2 DEF Becomes
<1>4. QED BY <1>3 DEF Moves, Alike

LEMMA SavesMoves ==
  ASSUME Typed, Programmed, NEW c \in Clients, NEW s, NEW X \in SUBSET Items,
         NEW r \in Command, Saves(c, s, X, r)
  PROVE  /\ Moves(c, r, X \cup cmd[c].eff)
         /\ \A d \in Clients \ {c} :
              cmd'[d].eff = IF Where(c) \in fresh THEN cmd[d].eff \ (X \cup cmd[c].eff) ELSE {}
<1> DEFINE Y == X \cup cmd[c].eff
           F(d) == IF Where(c) \in fresh THEN cmd[d].eff \ Y ELSE {}
           e(d) == [cmd[d] EXCEPT !.eff = F(d)]
<1>1. /\ cmd \in [Clients -> Command]
      /\ \A d \in Clients : cmd[d].op = "idle" <=> cmd[d] = Idle
  BY DEF Typed, Programmed
<1>2. Y \in SUBSET Items
  BY <1>1 DEF Command
<1>3. cmd' = [d \in Clients |-> IF d = c THEN Changing(r, Y) ELSE e(d)]
  BY DEF Saves
<1> HIDE DEF Y
<1>4. Changing(r, Y) \in Command
  BY <1>2, ChangingType
<1>5. ASSUME NEW d \in Clients
      PROVE  /\ e(d) \in Command /\ e(d).eff = F(d) /\ Alike(e(d), cmd[d])
             /\ e(d) = Idle <=> cmd[d] = Idle
             /\ F(d) \subseteq cmd[d].eff
  <2>1. F(d) \in SUBSET cmd[d].eff
    OBVIOUS
  <2> HIDE DEF F
  <2>2. QED BY <1>1, <2>1, WithLessEff
<1> HIDE DEF e, F
<1>6. /\ cmd' \in [Clients -> Command] /\ cmd'[c] = Changing(r, Y)
      /\ \A d \in Clients \ {c} : cmd'[d] = e(d)
  BY <1>3, <1>4, <1>5
<1>7. QED BY <1>5, <1>6 DEF Moves, Y, F

LEMMA AltersMoves ==
  ASSUME Typed, Programmed, NEW c \in Clients, NEW s, NEW X \in SUBSET Items,
         NEW r \in Command, Alters(c, s, X, r)
  PROVE  /\ Moves(c, r, r.eff \cup X)
         /\ \A d \in Clients \ {c} : cmd'[d].eff = IF cmd[c].api THEN cmd[d].eff \ X ELSE cmd[d].eff
<1> DEFINE Y == r.eff \cup X
           F(d) == cmd[d].eff \ X
           e(d) == [cmd[d] EXCEPT !.eff = F(d)]
           f(d) == IF cmd[c].api THEN e(d) ELSE cmd[d]
<1>1. /\ cmd \in [Clients -> Command]
      /\ \A d \in Clients : cmd[d].op = "idle" <=> cmd[d] = Idle
  BY DEF Typed, Programmed
<1>2. Y \in SUBSET Items
  BY DEF Command
<1>3. cmd' = [d \in Clients |-> IF d = c THEN Changing(r, Y) ELSE f(d)]
  BY DEF Alters
<1> HIDE DEF Y
<1>4. Changing(r, Y) \in Command
  BY <1>2, ChangingType
<1>5. ASSUME NEW d \in Clients
      PROVE  /\ e(d) \in Command /\ e(d).eff = F(d) /\ Alike(e(d), cmd[d])
             /\ e(d) = Idle <=> cmd[d] = Idle
             /\ F(d) \subseteq cmd[d].eff
  <2>1. F(d) \in SUBSET cmd[d].eff
    OBVIOUS
  <2> HIDE DEF F
  <2>2. QED BY <1>1, <2>1, WithLessEff
<1> HIDE DEF e, F
<1>6. ASSUME NEW d \in Clients
      PROVE  /\ f(d) \in Command /\ Alike(f(d), cmd[d])
             /\ f(d) = Idle <=> cmd[d] = Idle
             /\ f(d).eff = IF cmd[c].api THEN F(d) ELSE cmd[d].eff
             /\ f(d).eff \subseteq cmd[d].eff
  BY <1>1, <1>5 DEF Alike
<1> HIDE DEF f
<1>7. /\ cmd' \in [Clients -> Command] /\ cmd'[c] = Changing(r, Y)
      /\ \A d \in Clients \ {c} : cmd'[d] = f(d)
  BY <1>3, <1>4, <1>6
<1>8. QED BY <1>6, <1>7 DEF Moves, Y, F
-----------------------------------------------------------------------------
(* The three kinds of step of a command: it looks, it saves the file, or it *)
(* changes an object in place.                                              *)

\* c ends, or goes on with the rest of its program; env is what its memory then
\* says of the environment.
Follows(c, r, env) ==
    \/ r = Idle
    \/ /\ r.op = cmd[c].op /\ r.api = cmd[c].api /\ r.alone = cmd[c].alone /\ r.op # "idle"
       /\ r.eff = cmd[c].eff /\ Ordered(r)
       /\ r.key = cmd[c].key \/ (r.key = key' /\ key' \in Keys)
       /\ First(r, "CreateKey")  => At(c, "ReadKey") /\ key = None
       /\ First(r, "WriteKey")   => At(c, "CreateKey")
       /\ First(r, "Define")     => At(c, "CheckOff")
       /\ First(r, "ResizeDisk") => At(c, "Define")
       /\ Brings(r) /\ (\E x \in Bringing : First(r, x)) => r.clear = env.v

\* It will save what it changed.
WillSave(c, r) == r.p = cmd[c].p /\ \E x \in Saving : First(r, x)

\* Every memory that is read says of x what the file says.
Agreed(c, x) == /\ Same(Where(c), x)
                /\ \A w \in fresh : Alive(w) => Same(w, x)

LooksAs(c, r, E) ==
    /\ Follows(c, r, S(c).env) /\ Becomes(c, Changing(r, E)) /\ UNCHANGED store
    /\ r # Idle /\ Pending(c) => WillSave(c, r)
    /\ E = r.eff \/ (~Pending(c) /\ \A x \in E : Agreed(c, x))
SavesAs(c, s, X, r) ==
    /\ Follows(c, r, s.env) /\ Saves(c, s, X, r)
    /\ s.env \in {S(c).env, Unset}
    /\ \A x \in Items \ X : Value(s, x) = Value(S(c), x)
AltersAs(c, s, X, r) ==
    /\ Follows(c, r, s.env) /\ Alters(c, s, X, r)
    /\ s.env.k \in {S(c).env.k, None, cmd[c].key}
    /\ s.p = S(c).p /\ S(c).p = cmd[c].p
    /\ \A x \in Items \ X : Value(s, x) = Value(S(c), x)
    /\ r # Idle => WillSave(c, r)

Looks(c)    == \E r \in Command, E \in SUBSET Items : LooksAs(c, r, E)
SavesIt(c)  == \E s \in Stores, X \in SUBSET Items, r \in Command : SavesAs(c, s, X, r)
AltersIt(c) == \E s \in Stores, X \in SUBSET Items, r \in Command : AltersAs(c, s, X, r)

\* What such a step makes of the commands and the memories.
Effect(c, r, E, env) ==
    /\ Follows(c, r, env) /\ Moves(c, r, E)
    /\ file' \in Stores /\ mem' \in [Clients \cup {Server} -> Stores]
    /\ fresh' \subseteq Clients \cup {Server}
    /\ \A t \in told' : t[1] \in Items
    /\ \A d \in Clients \ {c} : mem'[d] = mem[d]
    /\ ~cmd[c].api => mem'[c].env = env
    /\ file'.env.k \in {file.env.k, S(c).env.k, None}
    /\ \A w \in Clients \cup {Server} : mem'[w].env.k \in {mem[w].env.k, None, cmd[c].key}

Step(c) == cmd[c] # Idle /\ (Looks(c) \/ SavesIt(c) \/ AltersIt(c))

LEMMA UnsetKey == Unset.k = None
BY DEF Unset, Plain

LEMMA WhereType ==
  ASSUME NEW c \in Clients
  PROVE  /\ Where(c) \in Clients \cup {Server}
         /\ \A d \in Clients \ {c} : Where(c) # d
         /\ ~cmd[c].api => Where(c) = c
         /\ cmd[c].api => Where(c) = Server
BY NamesAssumption DEF Where

LEMMA LooksEffect ==
  ASSUME Typed, Programmed, NEW c \in Clients, Looks(c)
  PROVE  \E r \in Command, E \in SUBSET Items, env \in EnvValues : Effect(c, r, E, env)
<1>1. PICK r \in Command, E \in SUBSET Items : LooksAs(c, r, E)
  BY DEF Looks
<1>2. Moves(c, r, E)
  BY <1>1, BecomesMoves DEF LooksAs
<1>3. Effect(c, r, E, S(c).env)
  BY <1>1, <1>2, WhereType DEF Effect, LooksAs, store, Typed, S
<1>4. S(c).env \in EnvValues
  BY WhereType DEF S, Typed, Stores, Store
<1>5. QED BY <1>3, <1>4

LEMMA SavesEffect ==
  ASSUME Typed, Programmed, NEW c \in Clients, SavesIt(c)
  PROVE  \E r \in Command, E \in SUBSET Items, env \in EnvValues : Effect(c, r, E, env)
<1>1. PICK s \in Stores, X \in SUBSET Items, r \in Command : SavesAs(c, s, X, r)
  BY DEF SavesIt
<1> DEFINE Y == X \cup cmd[c].eff
<1>2. Moves(c, r, Y) /\ Y \in SUBSET Items
  BY <1>1, SavesMoves DEF SavesAs, Typed, Command
<1>3. /\ mem' = [mem EXCEPT ![Where(c)] = s] /\ file' = s /\ fresh' = {Where(c)}
      /\ told' \subseteq told
  BY <1>1 DEF SavesAs, Saves, Except
<1>4. /\ mem' \in [Clients \cup {Server} -> Stores] /\ mem'[Where(c)] = s
      /\ \A w \in (Clients \cup {Server}) \ {Where(c)} : mem'[w] = mem[w]
  BY <1>3, WhereType DEF Typed
<1>5. s.env.k \in {S(c).env.k, None}
  BY <1>1, UnsetKey DEF SavesAs
<1>6. /\ file'.env.k \in {file.env.k, S(c).env.k, None}
      /\ \A w \in Clients \cup {Server} : mem'[w].env.k \in {mem[w].env.k, None, cmd[c].key}
  BY <1>3, <1>4, <1>5 DEF S
<1>7. /\ \A d \in Clients \ {c} : mem'[d] = mem[d]
      /\ ~cmd[c].api => mem'[c].env = s.env
  BY <1>4, WhereType
<1>8. fresh' \subseteq Clients \cup {Server} /\ \A t \in told' : t[1] \in Items
  BY <1>3, WhereType DEF Typed
<1> HIDE DEF Y
<1>9. Effect(c, r, Y, s.env)
  BY <1>1, <1>2, <1>3, <1>4, <1>6, <1>7, <1>8 DEF Effect, SavesAs
<1>10. s.env \in EnvValues
  BY DEF Stores, Store
<1>11. QED BY <1>2, <1>9, <1>10

LEMMA AltersEffect ==
  ASSUME Typed, Programmed, NEW c \in Clients, AltersIt(c)
  PROVE  \E r \in Command, E \in SUBSET Items, env \in EnvValues : Effect(c, r, E, env)
<1>1. PICK s \in Stores, X \in SUBSET Items, r \in Command : AltersAs(c, s, X, r)
  BY DEF AltersIt
<1> DEFINE Y == r.eff \cup X
<1>2. Moves(c, r, Y) /\ Y \in SUBSET Items
  BY <1>1, AltersMoves DEF AltersAs, Typed, Command
<1>3. /\ mem' = [mem EXCEPT ![Where(c)] = s] /\ file' = file /\ fresh' = fresh
      /\ told' \subseteq told
  BY <1>1 DEF AltersAs, Alters, Except
<1>4. /\ mem' \in [Clients \cup {Server} -> Stores] /\ mem'[Where(c)] = s
      /\ \A w \in (Clients \cup {Server}) \ {Where(c)} : mem'[w] = mem[w]
  BY <1>3, WhereType DEF Typed
<1>5. s.env.k \in {S(c).env.k, None, cmd[c].key}
  BY <1>1 DEF AltersAs
<1>6. \A w \in Clients \cup {Server} : mem'[w].env.k \in {mem[w].env.k, None, cmd[c].key}
  BY <1>3, <1>4, <1>5 DEF S
<1>7. /\ \A d \in Clients \ {c} : mem'[d] = mem[d]
      /\ ~cmd[c].api => mem'[c].env = s.env
  BY <1>4, WhereType
<1>8. fresh' \subseteq Clients \cup {Server} /\ \A t \in told' : t[1] \in Items
  BY <1>3, WhereType DEF Typed
<1> HIDE DEF Y
<1>9. file' \in Stores /\ file'.env.k \in {file.env.k, S(c).env.k, None}
  BY <1>3 DEF Typed
<1>10. Effect(c, r, Y, s.env)
  BY <1>1, <1>2, <1>4, <1>6, <1>7, <1>8, <1>9 DEF Effect, AltersAs
<1>11. s.env \in EnvValues
  BY DEF Stores, Store
<1>12. QED BY <1>2, <1>10, <1>11

LEMMA StepEffect ==
  ASSUME Typed, Programmed, NEW c \in Clients, Step(c)
  PROVE  \E r \in Command, E \in SUBSET Items, env \in EnvValues : Effect(c, r, E, env)
BY LooksEffect, SavesEffect, AltersEffect DEF Step
-----------------------------------------------------------------------------
(* What every step of a command keeps.                                      *)

LEMMA AlikeOrdered ==
  ASSUME NEW q, NEW r, Alike(q, r)
  PROVE  /\ Ordered(r) => Ordered(q)
         /\ Brings(q) = Brings(r)
         /\ \A x : First(q, x) = First(r, x)
<1>1. q.op = r.op /\ q.api = r.api /\ q.app = r.app /\ q.todo = r.todo
  BY DEF Alike
<1>2. Brings(q) = Brings(r)
  BY <1>1 DEF Brings
<1>3. \A x : First(q, x) = First(r, x)
  BY <1>1 DEF First
<1>4. IsRest(r, r.todo) => IsRest(q, q.todo)
  BY <1>1, RestSame
<1>5. Ordered(r) => Ordered(q)
  BY <1>1, <1>4 DEF Ordered
<1>6. QED BY <1>2, <1>3, <1>5

LEMMA IdleOrdered == Ordered(Idle) /\ ~Brings(Idle) /\ \A x : ~First(Idle, x)
<1>1. Idle.op = "idle" /\ Idle.todo = <<>> /\ "idle" \notin ForOne /\ "idle" \notin Deploys
  BY IdleType DEF ForOne, Deploys
<1>2. Ordered(Idle)
  BY <1>1 DEF Ordered, IsRest
<1>3. QED BY <1>1, <1>2 DEF Brings, First

\* The command after a step.
LEMMA MovesOwn ==
  ASSUME NEW c \in Clients, NEW r \in Command, NEW E \in SUBSET Items, Moves(c, r, E),
         NEW env, Follows(c, r, env)
  PROVE  \/ r = Idle /\ cmd'[c] = Idle
         \/ r # Idle /\ cmd'[c] # Idle /\ Alike(cmd'[c], r) /\ cmd'[c].eff = E
<1>1. cmd'[c] = Changing(r, E)
  BY DEF Moves
<1>2. CASE r = Idle
  BY <1>1, <1>2, ChangingType
<1>3. CASE r # Idle
  <2>1. r.op # "idle"
    BY <1>3 DEF Follows
  <2>2. Alike(cmd'[c], r) /\ cmd'[c].eff = E
    BY <1>1, <1>3, ChangingType
  <2>3. cmd'[c] # Idle
    BY <2>1, <2>2, IdleType DEF Alike
  <2>4. QED BY <1>3, <2>2, <2>3
<1>4. QED BY <1>2, <1>3

\* Commands keep to their programs.
LEMMA EffectProgrammed ==
  ASSUME Typed, Programmed, NEW c \in Clients, cmd[c] # Idle, NEW r \in Command,
         NEW E \in SUBSET Items, NEW env, Effect(c, r, E, env), UNCHANGED up
  PROVE  Programmed'
<1>1. Follows(c, r, env) /\ Moves(c, r, E)
  BY DEF Effect
<1>2. \A d \in Clients \ {c} : /\ Alike(cmd'[d], cmd[d])
                               /\ cmd'[d] = Idle <=> cmd[d] = Idle
  BY <1>1 DEF Moves
<1>3. \/ r = Idle /\ cmd'[c] = Idle
      \/ r # Idle /\ cmd'[c] # Idle /\ Alike(cmd'[c], r)
  BY <1>1, MovesOwn
<1>4. r # Idle => /\ r.op # "idle" /\ r.api = cmd[c].api /\ r.alone = cmd[c].alone
                  /\ Ordered(r)
  BY <1>1 DEF Follows
<1>5. \A d \in Clients : LET q == cmd[d] IN
        /\ Ordered(q)
        /\ q.op = "idle" <=> q = Idle
        /\ q # Idle /\ q.api => up
        /\ q # Idle /\ q.alone => \A e \in Clients \ {d} : cmd[e] = Idle
  BY DEF Programmed
<1>6. ASSUME NEW d \in Clients
      PROVE  /\ Ordered(cmd'[d])
             /\ cmd'[d].op = "idle" <=> cmd'[d] = Idle
             /\ cmd'[d] # Idle /\ cmd'[d].api => up
  <2>1. CASE d # c
    <3>1. Alike(cmd'[d], cmd[d]) /\ (cmd'[d] = Idle <=> cmd[d] = Idle)
      BY <1>2, <2>1
    <3>2. QED BY <1>5, <3>1, AlikeOrdered DEF Alike
  <2>2. CASE d = c /\ r = Idle
    BY <1>3, <2>2, IdleType, IdleOrdered
  <2>3. CASE d = c /\ r # Idle
    <3>1. Alike(cmd'[c], r) /\ cmd'[c] # Idle
      BY <1>3, <2>3
    <3>2. QED BY <1>4, <1>5, <2>3, <3>1, AlikeOrdered DEF Alike
  <2>4. QED BY <2>1, <2>2, <2>3
<1>7. ASSUME NEW d \in Clients, cmd'[d] # Idle, cmd'[d].alone, NEW e \in Clients \ {d}
      PROVE  cmd'[e] = Idle
  <2>1. CASE d # c
    <3>1. Alike(cmd'[d], cmd[d]) /\ cmd[d] # Idle
      BY <1>2, <1>7, <2>1
    <3>2. cmd[c] = Idle
      BY <1>5, <1>7, <2>1, <3>1 DEF Alike
    <3>3. QED BY <3>2
  <2>2. CASE d = c
    <3>1. r # Idle /\ cmd'[c].alone = r.alone
      BY <1>3, <1>7, <2>2 DEF Alike
    <3>2. cmd[e] = Idle
      BY <1>4, <1>5, <1>7, <2>2, <3>1
    <3>3. QED BY <1>2, <1>7, <2>2, <3>2
  <2>3. QED BY <2>1, <2>2
<1>8. QED BY <1>6, <1>7 DEF Programmed

\* The value that is merged in.
LEMMA EffectMerging ==
  ASSUME Typed, Merging, NEW c \in Clients, NEW r \in Command,
         NEW E \in SUBSET Items, NEW env, Effect(c, r, E, env)
  PROVE  Merging'
<1> SUFFICES ASSUME NEW d \in Clients, Brings(cmd'[d]), NEW x \in Bringing, First(cmd'[d], x)
             PROVE  cmd'[d].clear = mem'[d].env.v
  BY DEF Merging, At, First, Brings
<1>1. Follows(c, r, env) /\ Moves(c, r, E)
  BY DEF Effect
<1>2. CASE d # c
  <2>1. Alike(cmd'[d], cmd[d])
    BY <1>1, <1>2 DEF Moves
  <2>2. Brings(cmd[d]) /\ First(cmd[d], x) /\ cmd'[d].clear = cmd[d].clear
    BY <2>1, AlikeOrdered DEF Alike
  <2>3. cmd[d].clear = mem[d].env.v
    BY <2>2 DEF Merging, At, First
  <2>4. mem'[d] = mem[d]
    BY <1>2 DEF Effect
  <2>5. QED BY <2>2, <2>3, <2>4
<1>3. CASE d = c
  <2>1. r # Idle /\ Alike(cmd'[c], r)
    BY <1>1, <1>3, MovesOwn, IdleOrdered
  <2>2. Brings(r) /\ First(r, x) /\ cmd'[c].clear = r.clear
    BY <1>3, <2>1, AlikeOrdered DEF Alike
  <2>3. r.clear = env.v /\ r.api = cmd[c].api
    BY <1>1, <2>1, <2>2 DEF Follows
  <2>4. ~cmd[c].api
    BY <2>2, <2>3 DEF Brings
  <2>5. mem'[c].env = env
    BY <2>4 DEF Effect
  <2>6. QED BY <1>3, <2>2, <2>3, <2>5
<1>4. QED BY <1>2, <1>3

\* What a step makes of master.key.
Unlocks(c) ==
    \/ UNCHANGED vault /\ (At(c, "CreateKey") => cmd'[c] = Idle)
    \/ /\ At(c, "CreateKey") /\ key' = "torn"
       /\ raced' = (raced \/ \E d \in Clients \ {c} : At(d, "CreateKey") \/ At(d, "WriteKey"))
    \/ At(c, "WriteKey") /\ key' \in Keys /\ UNCHANGED raced

\* Secrets stay readable.
LEMMA EffectSealed ==
  ASSUME Typed, Sealed, NEW c \in Clients, NEW r \in Command,
         NEW E \in SUBSET Items, NEW env, Effect(c, r, E, env), Unlocks(c)
  PROVE  Sealed'
<1> SUFFICES ASSUME ~raced' PROVE
      /\ file'.env.k \in Good'
      /\ \A w \in Clients \cup {Server} : mem'[w].env.k \in Good'
      /\ \A d \in Clients :
           /\ cmd'[d].key \in Good'
           /\ First(cmd'[d], "CreateKey") => key' = None
           /\ First(cmd'[d], "WriteKey") =>
                /\ key' = "torn"
                /\ \A e \in Clients \ {d} : /\ ~First(cmd'[e], "CreateKey")
                                            /\ ~First(cmd'[e], "WriteKey")
  BY DEF Sealed, At, First
<1>1. Follows(c, r, env) /\ Moves(c, r, E)
  BY DEF Effect
<1>2. ~raced
  BY DEF Unlocks, vault
<1>3. /\ file.env.k \in Good
      /\ \A w \in Clients \cup {Server} : mem[w].env.k \in Good
      /\ \A d \in Clients :
           /\ cmd[d].key \in Good
           /\ First(cmd[d], "CreateKey") => key = None
           /\ First(cmd[d], "WriteKey") =>
                /\ key = "torn"
                /\ \A e \in Clients \ {d} : /\ ~First(cmd[e], "CreateKey")
                                            /\ ~First(cmd[e], "WriteKey")
  BY <1>2 DEF Sealed, At, First
<1>4. None \notin Keys /\ "torn" \notin Keys /\ None # "torn"
  BY NoneAssumption, NamesAssumption
<1>5. /\ First(cmd[c], "CreateKey") => key = None
      /\ First(cmd[c], "WriteKey") => key = "torn"
  BY <1>3
<1>6. Good \subseteq Good' /\ None \in Good'
  <2>1. CASE UNCHANGED vault
    BY <2>1 DEF Good, vault
  <2>2. CASE First(cmd[c], "CreateKey") \/ First(cmd[c], "WriteKey")
    BY <1>4, <1>5, <2>2 DEF Good
  <2>3. QED BY <2>1, <2>2 DEF Unlocks, At, First
<1>7. \A d \in Clients \ {c} : Alike(cmd'[d], cmd[d])
  BY <1>1 DEF Moves
<1>8. \/ r = Idle /\ cmd'[c] = Idle
      \/ r # Idle /\ Alike(cmd'[c], r)
  BY <1>1, MovesOwn
<1>9. /\ file'.env.k \in {file.env.k, S(c).env.k, None}
      /\ \A w \in Clients \cup {Server} : mem'[w].env.k \in {mem[w].env.k, None, cmd[c].key}
  BY DEF Effect
<1>10. file'.env.k \in Good' /\ \A w \in Clients \cup {Server} : mem'[w].env.k \in Good'
  BY <1>3, <1>6, <1>9, WhereType DEF S
<1>11. \A d \in Clients : cmd'[d].key \in Good'
  <2>1. \A d \in Clients \ {c} : cmd'[d].key = cmd[d].key
    BY <1>7 DEF Alike
  <2>2. cmd'[c].key \in {None, cmd[c].key} \/ (cmd'[c].key = key' /\ key' \in Keys)
    BY <1>1, <1>8 DEF Alike, Follows, Idle
  <2>3. key' \in Keys => key' \in Good'
    BY DEF Good
  <2>4. QED BY <1>3, <1>6, <2>1, <2>2, <2>3
<1>12. \A d \in Clients \ {c} : \A x : First(cmd'[d], x) = First(cmd[d], x)
  BY <1>7, AlikeOrdered
<1>13. /\ First(cmd'[c], "CreateKey") => First(cmd[c], "ReadKey") /\ key = None
       /\ First(cmd'[c], "WriteKey") => First(cmd[c], "CreateKey")
  <2>1. CASE r = Idle
    BY <1>8, <2>1, IdleOrdered
  <2>2. CASE r # Idle
    <3>1. \A x : First(cmd'[c], x) = First(r, x)
      BY <1>8, <2>2, AlikeOrdered
    <3>2. QED BY <1>1, <2>2, <3>1 DEF Follows, At, First
  <2>3. QED BY <2>1, <2>2
<1>14. ~(First(cmd[c], "CreateKey") /\ First(cmd[c], "ReadKey"))
  BY DEF First
<1>15. CASE UNCHANGED vault /\ (At(c, "CreateKey") => cmd'[c] = Idle)
  <2>1. key' = key /\ ~First(cmd'[c], "WriteKey")
    BY <1>13, <1>15, IdleOrdered DEF vault, At, First
  <2>2. \A d \in Clients : First(cmd'[d], "CreateKey") => key' = None
    BY <1>3, <1>12, <1>13, <2>1
  <2>3. ASSUME NEW d \in Clients, First(cmd'[d], "WriteKey")
        PROVE  /\ key' = "torn"
               /\ \A e \in Clients \ {d} : /\ ~First(cmd'[e], "CreateKey")
                                           /\ ~First(cmd'[e], "WriteKey")
    <3>1. d # c /\ First(cmd[d], "WriteKey")
      BY <1>12, <2>1, <2>3
    <3>2. key = "torn" /\ \A e \in Clients \ {d} : /\ ~First(cmd[e], "CreateKey")
                                                   /\ ~First(cmd[e], "WriteKey")
      BY <1>3, <3>1
    <3>3. QED BY <1>4, <1>12, <1>13, <2>1, <3>1, <3>2
  <2>4. QED BY <1>10, <1>11, <2>2, <2>3
<1>16. CASE First(cmd[c], "CreateKey") /\ key' = "torn" /\ raced' =
              (raced \/ \E d \in Clients \ {c} : At(d, "CreateKey") \/ At(d, "WriteKey"))
  <2>1. \A d \in Clients \ {c} : ~First(cmd[d], "CreateKey") /\ ~First(cmd[d], "WriteKey")
    BY <1>16 DEF At, First
  <2>2. \A d \in Clients \ {c} : ~First(cmd'[d], "CreateKey") /\ ~First(cmd'[d], "WriteKey")
    BY <1>12, <2>1
  <2>3. ~First(cmd'[c], "CreateKey")
    BY <1>13, <1>14, <1>16
  <2>4. QED BY <1>10, <1>11, <1>16, <2>2, <2>3
<1>17. CASE First(cmd[c], "WriteKey") /\ key' \in Keys
  <2>1. \A d \in Clients \ {c} : ~First(cmd[d], "CreateKey") /\ ~First(cmd[d], "WriteKey")
    BY <1>3, <1>17
  <2>2. \A d \in Clients \ {c} : ~First(cmd'[d], "CreateKey") /\ ~First(cmd'[d], "WriteKey")
    BY <1>12, <2>1
  <2>3. ~First(cmd'[c], "CreateKey") /\ ~First(cmd'[c], "WriteKey")
    BY <1>13, <1>17 DEF First
  <2>4. QED BY <1>10, <1>11, <2>2, <2>3
<1>18. QED BY <1>15, <1>16, <1>17 DEF Unlocks, At, First
-----------------------------------------------------------------------------
(* What is told stays true.                                                 *)

LEMMA AliveOwn ==
  ASSUME Programmed, NEW c \in Clients, cmd[c] # Idle
  PROVE  Alive(Where(c))
<1>1. CASE cmd[c].api
  <2>1. up /\ Where(c) = Server
    BY <1>1 DEF Programmed, Where
  <2>2. QED BY <2>1 DEF Alive
<1>2. CASE ~cmd[c].api
  BY <1>2, NamesAssumption DEF Where, Alive, Busy
<1>3. QED BY <1>1, <1>2

LEMMA AliveAfter ==
  ASSUME Typed, NEW c \in Clients, cmd[c] # Idle, NEW r \in Command, NEW E \in SUBSET Items,
         Moves(c, r, E), NEW env, Follows(c, r, env), UNCHANGED up,
         NEW w \in Clients \cup {Server}, Alive(w)'
  PROVE  Alive(w) /\ (w = c => r # Idle)
<1>1. CASE w = Server
  BY <1>1, NamesAssumption DEF Alive
<1>2. CASE w \in Clients \ {c}
  <2>1. w # Server /\ cmd'[w] # Idle /\ ~cmd'[w].api
    BY <1>2, NamesAssumption DEF Alive, Busy
  <2>2. Alike(cmd'[w], cmd[w]) /\ (cmd'[w] = Idle <=> cmd[w] = Idle)
    BY <1>2 DEF Moves
  <2>3. QED BY <1>2, <2>1, <2>2 DEF Alive, Busy, Alike
<1>3. CASE w = c
  <2>1. w # Server /\ cmd'[c] # Idle /\ ~cmd'[c].api
    BY <1>3, NamesAssumption DEF Alive, Busy
  <2>2. r # Idle /\ Alike(cmd'[c], r)
    BY <2>1, MovesOwn
  <2>3. ~cmd[c].api
    BY <2>1, <2>2 DEF Alike, Follows
  <2>4. QED BY <1>3, <2>1, <2>2, <2>3 DEF Alive, Busy
<1>4. QED BY <1>1, <1>2, <1>3

LEMMA PendingSame ==
  ASSUME NEW d \in Clients, Alike(cmd'[d], cmd[d]), mem'[Where(d)].p = mem[Where(d)].p
  PROVE  Where(d)' = Where(d) /\ (Pending(d) => Pending(d)')
<1>1. Where(d)' = Where(d)
  BY DEF Where, Alike
<1>2. QED BY <1>1 DEF Pending, S, At, Alike

LEMMA PendingNext ==
  ASSUME NEW c \in Clients, NEW r, Alike(cmd'[c], r), r.api = cmd[c].api, WillSave(c, r),
         mem'[Where(c)].p = cmd[c].p
  PROVE  Pending(c)'
<1>1. Where(c)' = Where(c)
  BY DEF Where, Alike
<1>2. QED BY <1>1 DEF Pending, S, At, Alike, WillSave, First

LEMMA LooksHonest ==
  ASSUME Typed, Programmed, Honest, NEW c \in Clients, cmd[c] # Idle, Looks(c), UNCHANGED up
  PROVE  Honest'
<1>1. PICK r \in Command, E \in SUBSET Items : LooksAs(c, r, E)
  BY DEF Looks
<1>2. /\ Moves(c, r, E) /\ \A d \in Clients \ {c} : cmd'[d] = cmd[d]
      /\ Follows(c, r, S(c).env)
  BY <1>1, BecomesMoves DEF LooksAs
<1>3. file' = file /\ mem' = mem /\ fresh' = fresh /\ told' = told
  BY <1>1 DEF LooksAs, store
<1>4. /\ r = Idle => cmd'[c] = Idle
      /\ r # Idle => /\ Alike(cmd'[c], r) /\ cmd'[c].eff = E /\ r.eff = cmd[c].eff
                     /\ r.api = cmd[c].api
  BY <1>2, MovesOwn DEF Follows
<1>5. /\ r # Idle /\ Pending(c) => Pending(c)' /\ cmd'[c].eff = cmd[c].eff
  <2> SUFFICES ASSUME r # Idle, Pending(c) PROVE Pending(c)' /\ cmd'[c].eff = cmd[c].eff
    OBVIOUS
  <2>1. WillSave(c, r) /\ E = r.eff
    BY <1>1 DEF LooksAs
  <2>2. mem'[Where(c)].p = cmd[c].p
    BY <1>3 DEF Pending, S
  <2>3. QED BY <1>4, <2>1, <2>2, PendingNext
<1>6. \A d \in Clients \ {c} : Where(d)' = Where(d) /\ (Pending(d) => Pending(d)')
  <2> TAKE d \in Clients \ {c}
  <2>1. Alike(cmd'[d], cmd[d])
    BY <1>2 DEF Alike
  <2>2. QED BY <1>3, <2>1, PendingSame
<1>7. \A w, x : Same(w, x)' <=> Same(w, x)
  BY <1>3 DEF Same
<1>8. ASSUME NEW x, Settled(x) PROVE Settled(x)'
  <2> SUFFICES ASSUME NEW w \in fresh', Alive(w)', ~Same(w, x)'
               PROVE  w # Server /\ x \in cmd'[w].eff /\ Pending(w)'
    BY DEF Settled
  <2>1. w \in Clients \cup {Server}
    BY <1>3 DEF Typed
  <2>2. Alive(w) /\ (w = c => r # Idle)
    BY <1>2, <2>1, AliveAfter
  <2>3. w # Server /\ x \in cmd[w].eff /\ Pending(w)
    BY <1>3, <1>7, <1>8, <2>2 DEF Settled
  <2>4. CASE w = c
    BY <1>5, <2>2, <2>3, <2>4
  <2>5. CASE w # c
    BY <1>2, <1>6, <2>1, <2>3, <2>5
  <2>6. QED BY <2>4, <2>5
<1>9. \A t \in told' : Value(file', t[1]) = t[2] /\ Settled(t[1])'
  BY <1>3, <1>8 DEF Honest
<1>10. ASSUME NEW d \in Clients, NEW x \in cmd'[d].eff
       PROVE  Pending(d)' \/ (Same(Where(d), x)' /\ Settled(x)')
  <2>1. CASE d # c
    <3>1. cmd'[d] = cmd[d] /\ Where(d)' = Where(d) /\ (Pending(d) => Pending(d)')
      BY <1>2, <1>6, <2>1
    <3>2. Pending(d) \/ (Same(Where(d), x) /\ Settled(x))
      BY <1>10, <3>1 DEF Honest
    <3>3. Same(Where(d), x)' <=> Same(Where(d), x)
      BY <1>3, <3>1 DEF Same
    <3>4. QED BY <1>8, <3>1, <3>2, <3>3
  <2>2. CASE d = c
    <3>1. r # Idle /\ x \in E
      BY <1>4, <1>10, <2>2, IdleType
    <3>2. Where(c)' = Where(c)
      BY <1>4, <3>1 DEF Where, Alike
    <3>3. Same(Where(c), x)' <=> Same(Where(c), x)
      BY <1>3, <3>2 DEF Same
    <3>4. CASE E = r.eff
      <4>1. Pending(c) \/ (Same(Where(c), x) /\ Settled(x))
        BY <1>4, <3>1, <3>4 DEF Honest
      <4>2. QED BY <1>5, <1>8, <2>2, <3>1, <3>3, <4>1
    <3>5. CASE Agreed(c, x)
      <4>1. Same(Where(c), x) /\ Settled(x)
        BY <3>5 DEF Agreed, Settled
      <4>2. QED BY <1>8, <2>2, <3>3, <4>1
    <3>6. QED BY <1>1, <3>1, <3>4, <3>5 DEF LooksAs
  <2>3. QED BY <2>1, <2>2
<1>11. QED BY <1>9, <1>10 DEF Honest

LEMMA SavesHonest ==
  ASSUME Typed, Programmed, Honest, NEW c \in Clients, cmd[c] # Idle, SavesIt(c)
  PROVE  Honest'
<1>1. PICK s \in Stores, X \in SUBSET Items, r \in Command : SavesAs(c, s, X, r)
  BY DEF SavesIt
<1>2. PICK w \in Clients \cup {Server} : w = Where(c)
  BY WhereType
<1> DEFINE Y == X \cup cmd[c].eff
<1>3. /\ Moves(c, r, Y) /\ Y \in SUBSET Items /\ Follows(c, r, s.env)
      /\ \A d \in Clients \ {c} :
           cmd'[d].eff = IF w \in fresh THEN cmd[d].eff \ Y ELSE {}
  <2>1. Saves(c, s, X, r) /\ Follows(c, r, s.env)
    BY <1>1 DEF SavesAs
  <2>2. Y \in SUBSET Items
    BY DEF Typed, Command
  <2>3. QED BY <1>2, <2>1, <2>2, SavesMoves
<1>4. /\ mem' = [mem EXCEPT ![w] = s] /\ file' = s /\ fresh' = {w}
      /\ told' = IF w \in fresh THEN Except(Y) ELSE {}
  BY <1>1, <1>2 DEF SavesAs, Saves
<1>5. /\ mem'[w] = s
      /\ \A v \in (Clients \cup {Server}) \ {w} : mem'[v] = mem[v]
  BY <1>4 DEF Typed
<1>6. /\ r = Idle => cmd'[c] = Idle
      /\ r # Idle => Alike(cmd'[c], r) /\ r.api = cmd[c].api
  BY <1>3, MovesOwn DEF Follows
<1>7. ASSUME NEW x PROVE Same(w, x)' /\ Settled(x)'
  <2>1. Same(w, x)'
    BY <1>4, <1>5 DEF Same
  <2>2. QED BY <1>4, <2>1 DEF Settled
<1>8. ASSUME NEW x \in Items \ Y, w \in fresh, Settled(x)
      PROVE  Value(file', x) = Value(file, x)
  <2>1. Alive(w)
    BY <1>2, AliveOwn
  <2>2. w # Server => w = c
    BY <1>2, WhereType
  <2>3. Same(w, x)
    BY <1>8, <2>1, <2>2 DEF Settled
  <2>4. Value(s, x) = Value(mem[w], x)
    BY <1>1, <1>2, <1>8 DEF SavesAs, S
  <2>5. QED BY <1>4, <2>3, <2>4 DEF Same
<1>9. ASSUME NEW t \in told'
      PROVE  Value(file', t[1]) = t[2] /\ Settled(t[1])'
  <2>1. t \in told /\ t[1] \in Items \ Y /\ w \in fresh
    BY <1>4 DEF Except, Typed
  <2>2. Value(file, t[1]) = t[2] /\ Settled(t[1])
    BY <2>1 DEF Honest
  <2>3. QED BY <1>7, <1>8, <2>1, <2>2
<1>10. ASSUME NEW d \in Clients, NEW x \in cmd'[d].eff
       PROVE  Pending(d)' \/ (Same(Where(d), x)' /\ Settled(x)')
  <2>1. CASE d = c
    <3>1. Where(c)' = w
      BY <1>2, <1>6, <1>10, <2>1, IdleType DEF Where, Alike
    <3>2. QED BY <1>4, <1>5, <1>7, <2>1, <3>1 DEF Same
  <2>2. CASE d # c
    <3>1. Alike(cmd'[d], cmd[d])
      BY <1>3, <2>2 DEF Moves
    <3>2. Where(d)' = Where(d) /\ Where(d) \in Clients \cup {Server}
      BY <3>1, WhereType DEF Where, Alike
    <3>3. CASE Where(d) = w
      BY <1>4, <1>5, <1>7, <3>2, <3>3 DEF Same
    <3>4. CASE Where(d) # w
      <4>1. mem'[Where(d)] = mem[Where(d)]
        BY <1>5, <3>2, <3>4
      <4>2. Pending(d) => Pending(d)'
        BY <3>1, <4>1, PendingSame
      <4>3. x \in cmd[d].eff \ Y /\ w \in fresh /\ x \in Items
        <5>1. x \in IF w \in fresh THEN cmd[d].eff \ Y ELSE {}
          BY <1>3, <1>10, <2>2
        <5>2. cmd[d].eff \subseteq Items
          BY DEF Typed, Command
        <5> HIDE DEF Y
        <5>3. QED BY <5>1, <5>2
      <4>4. Pending(d) \/ (Same(Where(d), x) /\ Settled(x))
        BY <4>3 DEF Honest
      <4>5. Same(Where(d), x) /\ Settled(x) => Same(Where(d), x)'
        BY <1>8, <3>2, <4>1, <4>3 DEF Same
      <4>6. QED BY <1>7, <4>2, <4>4, <4>5
    <3>5. QED BY <3>3, <3>4
  <2>3. QED BY <2>1, <2>2
<1>11. QED BY <1>9, <1>10 DEF Honest

LEMMA AltersHonest ==
  ASSUME Typed, Programmed, Honest, NEW c \in Clients, cmd[c] # Idle, AltersIt(c), UNCHANGED up
  PROVE  Honest'
<1>1. PICK s \in Stores, X \in SUBSET Items, r \in Command : AltersAs(c, s, X, r)
  BY DEF AltersIt
<1>2. PICK w \in Clients \cup {Server} : w = Where(c)
  BY WhereType
<1> DEFINE Y == r.eff \cup X
<1>3. /\ Moves(c, r, Y) /\ Y \in SUBSET Items /\ Follows(c, r, s.env)
      /\ \A d \in Clients \ {c} :
           cmd'[d].eff = IF cmd[c].api THEN cmd[d].eff \ X ELSE cmd[d].eff
  BY <1>1, AltersMoves DEF AltersAs, Command
<1>4. /\ mem' = [mem EXCEPT ![w] = s] /\ file' = file /\ fresh' = fresh
      /\ told' = IF cmd[c].api THEN Except(X) ELSE told
  BY <1>1, <1>2 DEF AltersAs, Alters
<1>5. /\ mem'[w] = s /\ s.p = mem[w].p /\ s.p = cmd[c].p
      /\ \A v \in (Clients \cup {Server}) \ {w} : mem'[v] = mem[v]
  BY <1>1, <1>2, <1>4 DEF Typed, AltersAs, S
<1>6. /\ r = Idle => cmd'[c] = Idle
      /\ r # Idle => /\ Alike(cmd'[c], r) /\ cmd'[c].eff = Y /\ r.api = cmd[c].api
                     /\ r.eff = cmd[c].eff
  BY <1>3, MovesOwn DEF Follows
<1>7. r # Idle => Pending(c)'
  <2> SUFFICES ASSUME r # Idle PROVE Pending(c)'
    OBVIOUS
  <2>1. WillSave(c, r)
    BY <1>1 DEF AltersAs
  <2>2. QED BY <1>2, <1>5, <1>6, <2>1, PendingNext
<1>8. ASSUME NEW d \in Clients \ {c}
      PROVE  /\ Where(d)' = Where(d) /\ Where(d) \in Clients \cup {Server}
             /\ Pending(d) => Pending(d)'
  <2>1. Alike(cmd'[d], cmd[d]) /\ Where(d) \in Clients \cup {Server}
    BY <1>3, WhereType DEF Moves
  <2>2. mem'[Where(d)].p = mem[Where(d)].p
    BY <1>5, <2>1
  <2>3. QED BY <2>1, <2>2, PendingSame
<1>9. ASSUME NEW v \in Clients \cup {Server}, NEW x \in Items, Same(v, x), v = w => x \notin X
      PROVE  Same(v, x)'
  <2>1. CASE v = w
    <3>1. Value(s, x) = Value(mem[w], x)
      BY <1>1, <1>2, <1>9, <2>1 DEF AltersAs, S
    <3>2. QED BY <1>4, <1>5, <1>9, <2>1, <3>1 DEF Same
  <2>2. CASE v # w
    BY <1>4, <1>5, <1>9, <2>2 DEF Same
  <2>3. QED BY <2>1, <2>2
<1>10. ASSUME NEW x \in Items, Settled(x), cmd[c].api => x \notin X
       PROVE  Settled(x)'
  <2> SUFFICES ASSUME NEW v \in fresh', Alive(v)', ~Same(v, x)'
               PROVE  v # Server /\ x \in cmd'[v].eff /\ Pending(v)'
    BY DEF Settled
  <2>1. v \in Clients \cup {Server} /\ v \in fresh
    BY <1>4 DEF Typed
  <2>2. Alive(v) /\ (v = c => r # Idle)
    BY <1>3, <2>1, AliveAfter
  <2>3. Same(v, x) \/ (v # Server /\ x \in cmd[v].eff /\ Pending(v))
    BY <1>10, <2>1, <2>2 DEF Settled
  <2>4. CASE v = c
    <3>1. r # Idle /\ c # Server /\ ~cmd[c].api /\ w = c
      BY <1>2, <2>2, <2>4, NamesAssumption, WhereType DEF Alive
    <3>2. x \in X \/ x \in cmd[c].eff
      BY <1>9, <2>1, <2>3, <2>4
    <3>3. QED BY <1>6, <1>7, <2>4, <3>1, <3>2
  <2>5. CASE v \in Clients \ {c}
    <3>1. v # w
      BY <1>2, <2>5, WhereType
    <3>2. ~Same(v, x)
      BY <1>9, <2>1, <3>1
    <3>3. v # Server /\ x \in cmd[v].eff /\ Pending(v)'
      BY <1>8, <2>3, <2>5, <3>2
    <3>4. x \in cmd'[v].eff
      BY <1>3, <1>10, <2>5, <3>3
    <3>5. QED BY <3>3, <3>4
  <2>6. CASE v = Server
    <3>1. Same(v, x)
      BY <2>3, <2>6
    <3>2. v = w => cmd[c].api
      BY <1>2, <2>6, NamesAssumption, WhereType
    <3>3. QED BY <1>9, <1>10, <2>1, <3>1, <3>2
  <2>7. QED BY <2>1, <2>4, <2>5, <2>6
<1>11. ASSUME NEW t \in told'
       PROVE  Value(file', t[1]) = t[2] /\ Settled(t[1])'
  <2>1. t \in told /\ t[1] \in Items /\ (cmd[c].api => t[1] \notin X)
    BY <1>4 DEF Except, Typed
  <2>2. Value(file, t[1]) = t[2] /\ Settled(t[1])
    BY <2>1 DEF Honest
  <2>3. QED BY <1>4, <1>10, <2>1, <2>2
<1>12. ASSUME NEW d \in Clients, NEW x \in cmd'[d].eff
       PROVE  Pending(d)' \/ (Same(Where(d), x)' /\ Settled(x)')
  <2>1. CASE d = c
    BY <1>6, <1>7, <1>12, <2>1, IdleType
  <2>2. CASE d # c
    <3>1. x \in cmd[d].eff /\ x \in Items /\ (cmd[c].api => x \notin X)
      <4>1. cmd[d].eff \in SUBSET Items
        BY DEF Typed, Command
      <4>2. x \in cmd[d].eff /\ (cmd[c].api => x \notin X)
        BY <1>3, <1>12, <2>2
      <4>3. QED BY <4>1, <4>2
    <3>2. Pending(d) \/ (Same(Where(d), x) /\ Settled(x))
      BY <3>1 DEF Honest
    <3>3. Where(d) = w => cmd[c].api
      BY <1>2, <2>2, WhereType
    <3>4. Same(Where(d), x) => Same(Where(d), x)'
      <4>1. PICK v \in Clients \cup {Server} : v = Where(d)
        BY <1>8, <2>2
      <4>2. Same(v, x) => Same(v, x)'
        BY <1>9, <3>1, <3>3, <4>1
      <4>3. QED BY <1>8, <2>2, <4>1, <4>2 DEF Same
    <3>5. QED BY <1>8, <1>10, <2>2, <3>1, <3>2, <3>4
  <2>3. QED BY <2>1, <2>2
<1>13. QED BY <1>11, <1>12 DEF Honest

LEMMA StepHonest ==
  ASSUME Typed, Programmed, Honest, NEW c \in Clients, Step(c), UNCHANGED up
  PROVE  Honest'
BY LooksHonest, SavesHonest, AltersHonest DEF Step
-----------------------------------------------------------------------------
(* How a command goes on.                                                   *)

\* The same command, working on the same app.
Kindred(q, r) == /\ q.op = r.op /\ q.api = r.api /\ q.alone = r.alone /\ q.eff = r.eff
                 /\ q.app = r.app

LEMMA WithTodo ==
  ASSUME NEW r \in Command, NEW s \in Seq(Calls)
  PROVE  LET q == [r EXCEPT !.todo = s]
         IN  /\ q \in Command /\ Kindred(q, r) /\ q.todo = s
             /\ q.p = r.p /\ q.key = r.key /\ q.clear = r.clear
BY DEF Command, Kindred

LEMMA WithP ==
  ASSUME NEW r \in Command, NEW p \in Nat
  PROVE  LET q == [r EXCEPT !.p = p]
         IN  /\ q \in Command /\ Kindred(q, r) /\ q.todo = r.todo
             /\ q.p = p /\ q.key = r.key /\ q.clear = r.clear
BY DEF Command, Kindred

LEMMA WithKey ==
  ASSUME NEW r \in Command, NEW k \in Keys \cup {None}
  PROVE  LET q == [r EXCEPT !.key = k]
         IN  /\ q \in Command /\ Kindred(q, r) /\ q.todo = r.todo
             /\ q.p = r.p /\ q.key = k /\ q.clear = r.clear
BY DEF Command, Kindred

LEMMA WithClear ==
  ASSUME NEW r \in Command, NEW v \in Values \cup {None}
  PROVE  LET q == [r EXCEPT !.clear = v]
         IN  /\ q \in Command /\ Kindred(q, r) /\ q.todo = r.todo
             /\ q.p = r.p /\ q.key = r.key /\ q.clear = v
BY DEF Command, Kindred

LEMMA WithGot ==
  ASSUME NEW r \in Command, NEW a \in AppDefs
  PROVE  LET q == [r EXCEPT !.got = a]
         IN  /\ q \in Command /\ Kindred(q, r) /\ q.todo = r.todo
             /\ q.p = r.p /\ q.key = r.key /\ q.clear = r.clear
BY DEF Command, Kindred

\* A command that makes a call.
LEMMA Called ==
  ASSUME Typed, Programmed, NEW c \in Clients, NEW x, At(c, x)
  PROVE  /\ cmd[c] \in Command /\ cmd[c] # Idle /\ cmd[c].op # "idle" /\ Ordered(cmd[c])
         /\ x \in Calls /\ MayCall(cmd[c], x)
         /\ cmd[c].todo # <<>> /\ Head(cmd[c].todo) = x
         /\ Rest(c) \in Seq(Calls) /\ IsRest(cmd[c], Rest(c))
         /\ Rest(c) = <<>> => x \notin Altering \cup {"CheckApp"}
         /\ Rest(c) # <<>> => MayFollow(cmd[c], x, Head(Rest(c)))
<1>1. /\ cmd[c] \in Command /\ cmd[c].todo # <<>> /\ Head(cmd[c].todo) = x
      /\ Ordered(cmd[c]) /\ (cmd[c].op = "idle" <=> cmd[c] = Idle)
  BY DEF Typed, Programmed, At
<1>2. cmd[c] # Idle
  BY <1>1, IdleType
<1>3. cmd[c].todo \in Seq(Calls) /\ IsRest(cmd[c], cmd[c].todo)
  BY <1>1 DEF Command, Ordered
<1>4. QED BY <1>1, <1>2, <1>3, RestTail DEF Rest

LEMMA GoesType ==
  ASSUME Typed, Programmed, NEW c \in Clients, NEW x, At(c, x)
  PROVE  /\ Goes(c) \in Command /\ Kindred(Goes(c), cmd[c]) /\ Goes(c).todo = Rest(c)
         /\ Goes(c).p = cmd[c].p /\ Goes(c).key = cmd[c].key /\ Goes(c).clear = cmd[c].clear
<1>1. cmd[c] \in Command /\ Rest(c) \in Seq(Calls)
  BY Called
<1>2. QED BY <1>1, WithTodo DEF Goes

\* It goes on with the rest of its program ...
LEMMA RestFollows ==
  ASSUME Typed, Programmed, NEW c \in Clients, NEW x, At(c, x), NEW q \in Command,
         Kindred(q, cmd[c]), q.todo = Rest(c), NEW env,
         q.key = cmd[c].key \/ (q.key = key' /\ key' \in Keys),
         Brings(cmd[c]) /\ x \in Bringing \cup {"Decrypt"} => q.clear = env.v
  PROVE  /\ Follows(c, q, env) /\ q # Idle
         /\ x \in Altering => \E y \in Saving : First(q, y)
<1> DEFINE r == cmd[c]
<1>1. /\ r # Idle /\ r.op # "idle" /\ Ordered(r) /\ IsRest(r, q.todo)
      /\ q.todo = <<>> => x \notin Altering
      /\ q.todo # <<>> => MayFollow(r, x, Head(q.todo))
  BY Called
<1>2. q.op = r.op /\ q.api = r.api /\ q.alone = r.alone /\ q.eff = r.eff /\ q.app = r.app
  BY DEF Kindred
<1>3. q # Idle
  BY <1>1, <1>2, IdleType
<1>4. Ordered(q)
  <2>1. IsRest(q, q.todo)
    BY <1>1, <1>2, RestSame
  <2>2. QED BY <1>1, <1>2, <2>1 DEF Ordered
<1>5. Brings(q) = Brings(r)
  BY <1>2 DEF Brings
<1>6. \A y : First(q, y) => MayFollow(r, x, y)
  BY <1>1 DEF First
<1>7. /\ First(q, "CreateKey")  => At(c, "ReadKey") /\ key = None
      /\ First(q, "WriteKey")   => At(c, "CreateKey")
      /\ First(q, "Define")     => At(c, "CheckOff")
      /\ First(q, "ResizeDisk") => At(c, "Define")
  BY <1>6 DEF MayFollow
<1>8. ASSUME Brings(q), NEW y \in Bringing, First(q, y)
      PROVE  q.clear = env.v
  <2>1. x \in Bringing \cup {"Decrypt"}
    BY <1>5, <1>6, <1>8 DEF MayFollow
  <2>2. QED BY <1>5, <1>8, <2>1
<1>9. ASSUME x \in Altering PROVE \E y \in Saving : First(q, y)
  <2>1. q.todo # <<>> /\ MayFollow(r, x, Head(q.todo))
    BY <1>1, <1>9
  <2>2. Head(q.todo) \in Saving
    BY <1>9, <2>1 DEF MayFollow
  <2>3. QED BY <2>1, <2>2 DEF First
<1>10. QED BY <1>1, <1>2, <1>3, <1>4, <1>7, <1>8, <1>9 DEF Follows

\* ... or with calls that take its place.
LEMMA ListFollows ==
  ASSUME Typed, Programmed, NEW c \in Clients, cmd[c] # Idle, NEW q \in Command,
         Kindred(q, cmd[c]), NEW env, q.key = cmd[c].key,
         q.todo # <<>>, IsRest(cmd[c], q.todo),
         Head(q.todo) \notin {"WriteKey", "Define", "ResizeDisk"},
         Head(q.todo) = "CreateKey" => At(c, "ReadKey") /\ key = None,
         Brings(cmd[c]) /\ Head(q.todo) \in Bringing => q.clear = env.v
  PROVE  Follows(c, q, env) /\ q # Idle
<1> DEFINE r == cmd[c]
<1>1. r.op # "idle" /\ Ordered(r)
  BY DEF Programmed
<1>2. q.op = r.op /\ q.api = r.api /\ q.alone = r.alone /\ q.eff = r.eff /\ q.app = r.app
  BY DEF Kindred
<1>3. q # Idle
  BY <1>1, <1>2, IdleType
<1>4. Ordered(q)
  <2>1. IsRest(q, q.todo)
    BY <1>2, RestSame
  <2>2. QED BY <1>1, <1>2, <2>1 DEF Ordered
<1>5. Brings(q) = Brings(r)
  BY <1>2 DEF Brings
<1>6. QED BY <1>1, <1>2, <1>3, <1>4, <1>5 DEF Follows, First

\* Steps that look.
LEMMA Looking ==
  ASSUME Typed, NEW c \in Clients, cmd[c] # Idle, NEW r \in Command,
         Follows(c, r, S(c).env), Becomes(c, r), UNCHANGED store,
         r # Idle /\ Pending(c) => WillSave(c, r)
  PROVE  Step(c)
<1>1. Changing(r, r.eff) = r /\ r.eff \in SUBSET Items
  BY OwnChanging DEF Command
<1>2. LooksAs(c, r, r.eff)
  BY <1>1 DEF LooksAs
<1>3. QED BY <1>1, <1>2 DEF Step, Looks

LEMMA LookingIdle ==
  ASSUME Typed, NEW c \in Clients, cmd[c] # Idle, Becomes(c, Idle), UNCHANGED store
  PROVE  Step(c)
BY Looking, IdleType DEF Follows

LEMMA LookingOn ==
  ASSUME Typed, Programmed, Merging, NEW c \in Clients, NEW x, At(c, x), x # "Decrypt",
         x # "UpdateProject" \/ S(c).p # cmd[c].p,
         Becomes(c, Goes(c)), UNCHANGED store
  PROVE  Step(c)
<1>1. Brings(cmd[c]) /\ x \in Bringing => cmd[c].clear = S(c).env.v
  BY DEF Merging, Brings, S, Where
<1>2. /\ Goes(c) \in Command /\ Kindred(Goes(c), cmd[c]) /\ Goes(c).todo = Rest(c)
      /\ Goes(c).p = cmd[c].p /\ Goes(c).key = cmd[c].key /\ Goes(c).clear = cmd[c].clear
  BY GoesType
<1>3. /\ Follows(c, Goes(c), S(c).env)
      /\ x \in Altering => \E y \in Saving : First(Goes(c), y)
  BY <1>1, <1>2, RestFollows
<1>4. Pending(c) => WillSave(c, Goes(c))
  <2> SUFFICES ASSUME Pending(c) PROVE WillSave(c, Goes(c))
    OBVIOUS
  <2>1. x \in Altering
    BY DEF Pending, At, Altering, Saving
  <2>2. QED BY <1>2, <1>3, <2>1 DEF WillSave
<1>5. cmd[c] # Idle
  BY Called
<1>6. QED BY <1>2, <1>3, <1>4, <1>5, Looking

\* Steps that save the file.
LEMMA SavingOn ==
  ASSUME Typed, Programmed, Merging, NEW c \in Clients, NEW x, At(c, x), x # "Decrypt",
         NEW s \in Stores, NEW X \in SUBSET Items, Saves(c, s, X, Goes(c)),
         s.env \in {S(c).env, Unset}, x \in Bringing => s.env = S(c).env,
         \A y \in Items \ X : Value(s, y) = Value(S(c), y)
  PROVE  Step(c)
<1>1. Brings(cmd[c]) /\ x \in Bringing => cmd[c].clear = s.env.v
  BY DEF Merging, Brings, S, Where
<1>2. /\ Goes(c) \in Command /\ Kindred(Goes(c), cmd[c]) /\ Goes(c).todo = Rest(c)
      /\ Goes(c).key = cmd[c].key /\ Goes(c).clear = cmd[c].clear
  BY GoesType
<1>3. Follows(c, Goes(c), s.env)
  BY <1>1, <1>2, RestFollows
<1>4. cmd[c] # Idle
  BY Called
<1>5. QED BY <1>2, <1>3, <1>4 DEF Step, SavesIt, SavesAs

\* Steps that change an object in place.
LEMMA AlteringOn ==
  ASSUME Typed, Programmed, NEW c \in Clients, NEW x \in Altering, At(c, x),
         NEW r \in {Goes(c), Idle}, NEW s \in Stores, NEW X \in SUBSET Items,
         Alters(c, s, X, r), s.env.k \in {S(c).env.k, None, cmd[c].key},
         s.p = S(c).p, S(c).p = cmd[c].p,
         \A y \in Items \ X : Value(s, y) = Value(S(c), y)
  PROVE  Step(c)
<1>1. x \notin Bringing \cup {"Decrypt"}
  BY DEF Altering, Saving, Bringing
<1>2. /\ Goes(c) \in Command /\ Kindred(Goes(c), cmd[c]) /\ Goes(c).todo = Rest(c)
      /\ Goes(c).p = cmd[c].p /\ Goes(c).key = cmd[c].key
  BY GoesType
<1>3. /\ Follows(c, Goes(c), s.env) /\ \E y \in Saving : First(Goes(c), y)
  BY <1>1, <1>2, RestFollows
<1>4. WillSave(c, Goes(c))
  BY <1>2, <1>3 DEF WillSave
<1>5. r \in Command /\ Follows(c, r, s.env) /\ (r # Idle => WillSave(c, r))
  BY <1>2, <1>3, <1>4, IdleType DEF Follows
<1>6. cmd[c] # Idle
  BY Called
<1>7. QED BY <1>5, <1>6 DEF Step, AltersIt, AltersAs

\* What differs between two memories.
LEMMA ValueSame ==
  ASSUME NEW s, NEW t, NEW X,
         "project" \notin X => s.p = t.p,
         "size" \notin X => s.cpu = t.cpu /\ s.disk = t.disk,
         "env" \notin X => s.env = t.env,
         "power" \notin X => s.inst.st = t.inst.st,
         \A a \in Apps \ X : s.apps[a] = t.apps[a]
  PROVE  \A x \in Items \ X : Value(s, x) = Value(t, x)
BY DEF Items, Value

\* Steps that look and note something, or find out what else is to be done.
LEMMA LookingWith ==
  ASSUME Typed, Programmed, NEW c \in Clients, NEW x, At(c, x), x \notin Saving,
         NEW q \in Command, Kindred(q, cmd[c]), q.todo = Rest(c),
         q.key = cmd[c].key \/ (q.key = key' /\ key' \in Keys),
         Brings(cmd[c]) /\ x \in Bringing \cup {"Decrypt"} => q.clear = S(c).env.v,
         Becomes(c, q), UNCHANGED store
  PROVE  Step(c)
<1>1. Follows(c, q, S(c).env) /\ cmd[c] # Idle
  BY RestFollows, Called
<1>2. ~Pending(c)
  BY DEF Pending, At
<1>3. QED BY <1>1, <1>2, Looking

LEMMA LookingList ==
  ASSUME Typed, Programmed, NEW c \in Clients, NEW x, At(c, x), x \notin Saving,
         NEW q \in Command, Kindred(q, cmd[c]), q.key = cmd[c].key,
         q.todo # <<>>, IsRest(cmd[c], q.todo),
         Head(q.todo) \notin {"WriteKey", "Define", "ResizeDisk"},
         Head(q.todo) = "CreateKey" => x = "ReadKey" /\ key = None,
         Brings(cmd[c]) /\ Head(q.todo) \in Bringing => q.clear = S(c).env.v,
         Becomes(c, q), UNCHANGED store
  PROVE  Step(c)
<1>1. cmd[c] # Idle
  BY Called
<1>2. Follows(c, q, S(c).env)
  BY <1>1, ListFollows
<1>3. ~Pending(c)
  BY DEF Pending, At
<1>4. QED BY <1>1, <1>2, <1>3, Looking

-----------------------------------------------------------------------------
(* Memories, changed.                                                       *)

LEMMA OwnStore ==
  ASSUME Typed, NEW c \in Clients
  PROVE  S(c) \in Stores
BY WhereType DEF Typed, S

LEMMA WithState ==
  ASSUME NEW s \in Stores, NEW st \in {"running", "starting", "stopping", "stopped"}
  PROVE  LET t == [s EXCEPT !.inst.st = st]
         IN  /\ t \in Stores /\ t.env = s.env /\ t.p = s.p
             /\ \A x \in Items \ {"power"} : Value(t, x) = Value(s, x)
<1> DEFINE t == [s EXCEPT !.inst.st = st]
<1>1. /\ t \in Stores /\ t.p = s.p /\ t.cpu = s.cpu /\ t.disk = s.disk /\ t.env = s.env
      /\ t.apps = s.apps
  BY DEF Stores, Store
<1> HIDE DEF t
<1>2. \A x \in Items \ {"power"} : Value(t, x) = Value(s, x)
  BY <1>1, ValueSame
<1>3. QED BY <1>1, <1>2 DEF t

LEMMA WithInst ==
  ASSUME NEW s \in Stores, NEW i \in [of : Nat, st : {"none", "running"}]
  PROVE  LET t == [s EXCEPT !.inst = i]
         IN  /\ t \in Stores /\ t.env = s.env /\ t.p = s.p
             /\ \A x \in Items \ {"power"} : Value(t, x) = Value(s, x)
<1> DEFINE t == [s EXCEPT !.inst = i]
<1>1. /\ t \in Stores /\ t.p = s.p /\ t.cpu = s.cpu /\ t.disk = s.disk /\ t.env = s.env
      /\ t.apps = s.apps
  BY DEF Stores, Store
<1> HIDE DEF t
<1>2. \A x \in Items \ {"power"} : Value(t, x) = Value(s, x)
  BY <1>1, ValueSame
<1>3. QED BY <1>1, <1>2 DEF t

LEMMA WithEnv ==
  ASSUME NEW s \in Stores, NEW e \in EnvValues
  PROVE  LET t == [s EXCEPT !.env = e]
         IN  /\ t \in Stores /\ t.env = e /\ t.p = s.p
             /\ \A x \in Items \ {"env"} : Value(t, x) = Value(s, x)
<1> DEFINE t == [s EXCEPT !.env = e]
<1>1. /\ t \in Stores /\ t.p = s.p /\ t.cpu = s.cpu /\ t.disk = s.disk /\ t.env = e
      /\ t.inst = s.inst /\ t.apps = s.apps
  BY DEF Stores, Store
<1> HIDE DEF t
<1>2. \A x \in Items \ {"env"} : Value(t, x) = Value(s, x)
  BY <1>1, ValueSame
<1>3. QED BY <1>1, <1>2 DEF t

LEMMA WithSize ==
  ASSUME NEW s \in Stores, NEW n \in 1..2, NEW d \in 0..MaxDisk
  PROVE  /\ LET t == [s EXCEPT !.cpu = n]
            IN  /\ t \in Stores /\ t.env = s.env /\ t.p = s.p /\ t.disk = s.disk
                /\ \A x \in Items \ {"size"} : Value(t, x) = Value(s, x)
         /\ LET t == [s EXCEPT !.disk = d]
            IN  /\ t \in Stores /\ t.env = s.env /\ t.p = s.p
                /\ \A x \in Items \ {"size"} : Value(t, x) = Value(s, x)
<1> DEFINE t == [s EXCEPT !.cpu = n]
           u == [s EXCEPT !.disk = d]
<1>1. /\ t \in Stores /\ t.p = s.p /\ t.env = s.env /\ t.disk = s.disk
      /\ t.inst = s.inst /\ t.apps = s.apps
  BY DEF Stores, Store
<1>2. /\ u \in Stores /\ u.p = s.p /\ u.env = s.env
      /\ u.inst = s.inst /\ u.apps = s.apps
  BY DEF Stores, Store
<1> HIDE DEF t, u
<1>3. \A x \in Items \ {"size"} : Value(t, x) = Value(s, x)
  BY <1>1, ValueSame
<1>4. \A x \in Items \ {"size"} : Value(u, x) = Value(s, x)
  BY <1>2, ValueSame
<1>5. QED BY <1>1, <1>2, <1>3, <1>4 DEF t, u

LEMMA WithApp ==
  ASSUME NEW s \in Stores, NEW a \in Apps, NEW app \in AppDefs
  PROVE  LET t == [s EXCEPT !.apps[a] = app]
         IN  /\ t \in Stores /\ t.env = s.env /\ t.p = s.p
             /\ \A x \in Items \ {a} : Value(t, x) = Value(s, x)
<1> DEFINE t == [s EXCEPT !.apps[a] = app]
<1>1. /\ t.p = s.p /\ t.cpu = s.cpu /\ t.disk = s.disk /\ t.env = s.env
      /\ t.inst = s.inst /\ t.apps = [s.apps EXCEPT ![a] = app]
  BY DEF Stores, Store
<1>2. \A b \in Apps \ {a} : t.apps[b] = s.apps[b]
  BY <1>1 DEF Stores, Store
<1>3. t \in Stores
  <2>1. app \in [v : Values \cup {None, "none"}, k : Keys \cup {None}, mine : BOOLEAN]
    <3>1. CASE app = NoApp
      BY <3>1 DEF NoApp
    <3>2. CASE app \in [v : Values \cup {None}, k : {None}, mine : BOOLEAN]
      BY <3>2
    <3>3. QED BY <3>1, <3>2 DEF AppDefs
  <2>2. t \in Store
    BY <1>1, <2>1 DEF Stores, Store
  <2>3. \A b \in Apps : t.apps[b] \in AppDefs
    BY <1>1, <1>2 DEF Stores, Store
  <2>4. QED BY <2>2, <2>3 DEF Stores
<1> HIDE DEF t
<1>4. \A x \in Items \ {a} : Value(t, x) = Value(s, x)
  <2> DEFINE X == {a}
  <2>1. \A b \in Apps \ X : t.apps[b] = s.apps[b]
    BY <1>2
  <2> HIDE DEF X
  <2>2. /\ "project" \notin X => t.p = s.p
        /\ "size" \notin X => t.cpu = s.cpu /\ t.disk = s.disk
        /\ "env" \notin X => t.env = s.env
        /\ "power" \notin X => t.inst.st = s.inst.st
    BY <1>1
  <2>3. \A x \in Items \ X : Value(t, x) = Value(s, x)
    BY ONLY <2>1, <2>2, ValueSame
  <2>4. QED BY <2>3 DEF X
<1>5. QED BY <1>1, <1>3, <1>4 DEF t

\* A project that was just created, and the memory without one.
LEMMA EmptyStore == Empty \in Stores /\ Empty.env = Unset
BY DEF Empty, Stores, Store, Unset, Plain, EnvValues, NoInstance, NoApps, NoApp, AppDefs, MaxDisk

LEMMA NewStore ==
  ASSUME NEW s \in Stores, NEW p \in Nat
  PROVE  /\ [Empty EXCEPT !.p = p, !.inst = s.inst] \in Stores
         /\ [Empty EXCEPT !.p = p, !.inst = s.inst].env = Unset
         /\ Without(s) \in Stores /\ Without(s).env = Unset
<1> DEFINE e == [Empty EXCEPT !.p = p]
           t == [e EXCEPT !.inst = s.inst]
           u == [Empty EXCEPT !.inst = s.inst]
<1>1. s.inst \in [of : Nat, st : {"none", "running", "starting", "stopping", "stopped"}]
  BY DEF Stores, Store
<1>2. e \in Stores /\ e.env = Unset
  BY EmptyStore DEF Stores, Store
<1>3. t \in Stores /\ t.env = Unset
  <2> HIDE DEF e
  <2>1. QED BY <1>1, <1>2 DEF Stores, Store
<1>4. u \in Stores /\ u.env = Unset
  BY <1>1, EmptyStore DEF Stores, Store
<1>5. QED BY <1>3, <1>4 DEF Without
-----------------------------------------------------------------------------
(* Every call is a step of one of the three kinds.                          *)

LEMMA SaveOnStep ==
  ASSUME Typed, Programmed, Merging, NEW c \in Clients, NEW x, At(c, x), x # "Decrypt",
         Saves(c, S(c), {}, Goes(c))
  PROVE  Step(c)
BY OwnStore, SavingOn

LEMMA StateStep ==
  ASSUME Typed, Programmed, Merging, NEW c \in Clients, NEW x, At(c, x), x # "Decrypt",
         NEW st \in {"running", "starting", "stopping", "stopped"},
         Saves(c, [S(c) EXCEPT !.inst.st = st], {"power"}, Goes(c))
  PROVE  Step(c)
<1> DEFINE t == [S(c) EXCEPT !.inst.st = st]
<1>1. t \in Stores /\ t.env = S(c).env /\ \A y \in Items \ {"power"} : Value(t, y) = Value(S(c), y)
  BY OwnStore, WithState
<1>2. {"power"} \in SUBSET Items
  BY DEF Items
<1> HIDE DEF t
<1>3. Saves(c, t, {"power"}, Goes(c))
  BY DEF t
<1>4. QED BY <1>1, <1>2, <1>3, SavingOn

LEMMA PoweredStep ==
  ASSUME Typed, Programmed, Merging, NEW c \in Clients, NEW x \in Altering, At(c, x),
         NEW st \in {"running", "starting", "stopping", "stopped"},
         NEW r \in {Goes(c), Idle}, Powered(c, st, r)
  PROVE  Step(c)
<1>1. x # "UpdateProject" /\ x # "Decrypt"
  BY DEF Altering, Saving
<1>2. CASE HasInstance(c)
  <2> DEFINE t == [S(c) EXCEPT !.inst.st = st]
  <2>1. /\ t \in Stores /\ t.env = S(c).env /\ t.p = S(c).p
        /\ \A y \in Items \ {"power"} : Value(t, y) = Value(S(c), y)
    BY OwnStore, WithState
  <2>2. {"power"} \in SUBSET Items /\ S(c).p = cmd[c].p
    BY <1>2 DEF Items, HasInstance
  <2>3. Alters(c, t, {"power"}, r)
    BY <1>2 DEF Powered
  <2> HIDE DEF t
  <2>4. QED BY <2>1, <2>2, <2>3, AlteringOn
<1>3. CASE ~HasInstance(c)
  <2>1. Becomes(c, r) /\ UNCHANGED store
    BY <1>3 DEF Powered
  <2>2. CASE r = Idle
    BY <2>1, <2>2, LookingIdle, Called
  <2>3. CASE r = Goes(c)
    BY <1>1, <2>1, <2>3, LookingOn
  <2>4. QED BY <2>2, <2>3
<1>4. QED BY <1>2, <1>3

\* Calls that go on or end the command, whatever they do to the VM.
LEMMA OnOrIdle ==
  ASSUME Typed, Programmed, Merging, NEW c \in Clients, NEW x, At(c, x),
         x \notin {"Decrypt", "UpdateProject"},
         Becomes(c, Goes(c)) \/ Becomes(c, Idle), UNCHANGED store
  PROVE  Step(c)
BY LookingOn, LookingIdle, Called

LEMMA SeenType == Seen \in {"running", "stopped"}
BY DEF Seen

LEMMA ReconcileStep ==
  ASSUME Typed, Programmed, Merging, NEW c \in Clients, Reconcile(c) \/ CannotReconcile(c)
  PROVE  Step(c)
<1>1. At(c, "Reconcile")
  BY DEF Reconcile, CannotReconcile
<1>2. CASE Reconcile(c) /\ Drifted(S(c))
  <2>1. Saves(c, [S(c) EXCEPT !.inst.st = Seen], {"power"}, Goes(c))
    BY <1>2 DEF Reconcile
  <2>2. QED BY <1>1, <2>1, SeenType, StateStep
<1>3. CASE ~(Reconcile(c) /\ Drifted(S(c)))
  <2>1. (Becomes(c, Goes(c)) \/ Becomes(c, Idle)) /\ UNCHANGED store
    BY <1>3 DEF Reconcile, CannotReconcile
  <2>2. QED BY <1>1, <2>1, OnOrIdle
<1>4. QED BY <1>2, <1>3

\* What is shown is what every memory says.
LEMMA ShowStep ==
  ASSUME Typed, Programmed, Merging, NEW c \in Clients, Show(c)
  PROVE  Step(c)
<1>1. At(c, "Show") /\ UNCHANGED store
  BY DEF Show
<1> DEFINE E == {x \in Shown(c) : \A w \in fresh :
                   Alive(w) => Value(mem[w], x) = Value(file, x)}
<1>2. CASE c \in fresh /\ ~cmd[c].api
  <2>1. Becomes(c, Changing(Goes(c), E))
    BY <1>2 DEF Show
  <2>2. cmd[c] \in Command /\ cmd[c] # Idle /\ Ordered(cmd[c])
    BY <1>1, Called
  <2>3. E \in SUBSET Items
    <3>1. cmd[c].op = "app info" => cmd[c].app \in Apps
      BY <2>2 DEF Ordered, ForOne, Command
    <3>2. Shown(c) \subseteq Items
      BY <3>1 DEF Shown, Items
    <3>3. QED BY <3>2
  <2>4. \A x \in E : Agreed(c, x)
    <3> TAKE x \in E
    <3>1. \A w \in fresh : Alive(w) => Same(w, x)
      BY DEF Same
    <3>2. Where(c) = c /\ Alive(c)
      BY <1>2, <2>2, AliveOwn, WhereType
    <3>3. QED BY <1>2, <3>1, <3>2 DEF Agreed
  <2>5. /\ Goes(c) \in Command /\ Kindred(Goes(c), cmd[c]) /\ Goes(c).todo = Rest(c)
        /\ Goes(c).key = cmd[c].key
    BY <1>1, GoesType
  <2>6. Follows(c, Goes(c), S(c).env)
    BY <1>1, <2>5, RestFollows DEF Bringing
  <2>7. ~Pending(c)
    BY <1>1 DEF Pending, At, Saving
  <2> HIDE DEF E
  <2>8. LooksAs(c, Goes(c), E)
    BY <1>1, <2>1, <2>4, <2>6, <2>7 DEF LooksAs
  <2>9. QED BY <2>2, <2>3, <2>5, <2>8 DEF Step, Looks
<1>3. CASE ~(c \in fresh /\ ~cmd[c].api)
  <2>1. Becomes(c, Goes(c))
    BY <1>3 DEF Show
  <2>2. QED BY <1>1, <2>1, OnOrIdle
<1>4. QED BY <1>2, <1>3

\* It found the project, and goes on.
LEMMA FoundStep ==
  ASSUME Typed, Programmed, NEW c \in Clients, NEW x, At(c, x),
         x \notin Saving \cup Bringing \cup {"Decrypt"},
         Becomes(c, [Goes(c) EXCEPT !.p = S(c).p]), UNCHANGED store
  PROVE  Step(c)
<1> DEFINE q == [Goes(c) EXCEPT !.p = S(c).p]
<1>1. S(c).p \in Nat
  BY OwnStore DEF Stores, Store
<1>2. /\ Goes(c) \in Command /\ Kindred(Goes(c), cmd[c]) /\ Goes(c).todo = Rest(c)
      /\ Goes(c).key = cmd[c].key
  BY GoesType
<1>3. q \in Command /\ Kindred(q, cmd[c]) /\ q.todo = Rest(c) /\ q.key = cmd[c].key
  BY <1>1, <1>2, WithP DEF Kindred
<1>4. Becomes(c, q)
  OBVIOUS
<1> HIDE DEF q
<1>5. QED BY <1>3, <1>4, LookingWith

LEMMA FindStep ==
  ASSUME Typed, Programmed, Merging, NEW c \in Clients, FindProject(c) \/ Find(c)
  PROVE  Step(c)
<1>1. PICK x \in {"FindProject", "Find"} : At(c, x)
  BY DEF FindProject, Find
<1>2. /\ Becomes(c, Idle) \/ Becomes(c, [Goes(c) EXCEPT !.p = S(c).p])
      /\ UNCHANGED store
  BY DEF FindProject, Find
<1>3. x \notin Saving \cup Bringing \cup {"Decrypt"}
  BY DEF Saving, Bringing
<1>4. QED BY <1>1, <1>2, <1>3, FoundStep, LookingIdle, Called

LEMMA FindOrCreateStep ==
  ASSUME Typed, Programmed, Merging, NEW c \in Clients, FindOrCreate(c)
  PROVE  Step(c)
<1> DEFINE q == [cmd[c] EXCEPT !.todo = Create \o Rest(c)]
<1>1. At(c, "FindOrCreate") /\ UNCHANGED store
      /\ (Becomes(c, q) \/ Becomes(c, [Goes(c) EXCEPT !.p = S(c).p]))
  BY DEF FindOrCreate
<1>2. "FindOrCreate" \notin Saving \cup Bringing \cup {"Decrypt"}
  BY DEF Saving, Bringing
<1>3. /\ cmd[c] \in Command /\ Rest(c) \in Seq(Calls) /\ IsRest(cmd[c], Rest(c))
      /\ Rest(c) # <<>> => MayFollow(cmd[c], "FindOrCreate", Head(Rest(c)))
  BY <1>1, Called
<1>4. Rest(c) # <<>> => MayFollow(cmd[c], Create[Len(Create)], Head(Rest(c)))
  <2>1. Create[Len(Create)] = "SetInstance"
    BY DEF Create
  <2>2. \A y : MayFollow(cmd[c], "FindOrCreate", y) => MayFollow(cmd[c], "SetInstance", y)
    BY DEF MayFollow, Altering, Saving, Bringing
  <2>3. QED BY <1>3, <2>1, <2>2
<1>5. Create \in Seq(Calls) /\ IsRest(cmd[c], Create) /\ Create # <<>> /\ Head(Create) = "CreateProject"
  BY ProjectLists DEF Fits, Create
<1>6. /\ Create \o Rest(c) \in Seq(Calls) /\ IsRest(cmd[c], Create \o Rest(c))
      /\ Create \o Rest(c) # <<>> /\ Head(Create \o Rest(c)) = "CreateProject"
  BY <1>3, <1>4, <1>5, RestConcat
<1>7. /\ q \in Command /\ Kindred(q, cmd[c]) /\ q.key = cmd[c].key
      /\ q.todo = Create \o Rest(c)
  BY <1>3, <1>6, WithTodo
<1> HIDE DEF q
<1>8. Becomes(c, q) => Step(c)
  BY <1>1, <1>2, <1>6, <1>7, LookingList DEF Bringing
<1>9. QED BY <1>1, <1>2, <1>8, FoundStep

LEMMA CreateProjectStep ==
  ASSUME Typed, Programmed, Merging, NEW c \in Clients, CreateProject(c)
  PROVE  Step(c)
<1> DEFINE s == [Empty EXCEPT !.p = begun + 1, !.inst = S(c).inst]
           q == [Goes(c) EXCEPT !.p = begun + 1]
<1>1. At(c, "CreateProject")
  BY DEF CreateProject
<1>2. CASE S(c).p # 0
  <2>1. Becomes(c, Idle) /\ UNCHANGED store
    BY <1>2 DEF CreateProject
  <2>2. QED BY <1>1, <2>1, LookingIdle, Called
<1>3. CASE S(c).p = 0
  <2>1. Saves(c, s, Items, q)
    BY <1>3 DEF CreateProject
  <2>2. begun + 1 \in Nat
    BY DEF Typed
  <2>3. s \in Stores /\ s.env = Unset
    BY <2>2, OwnStore, NewStore
  <2>4. q \in Command /\ Kindred(q, cmd[c]) /\ q.todo = Rest(c) /\ q.key = cmd[c].key
    BY <1>1, <2>2, GoesType, WithP DEF Kindred
  <2> HIDE DEF s, q
  <2>5. Follows(c, q, s.env)
    BY <1>1, <2>4, RestFollows DEF Bringing
  <2>6. SavesAs(c, s, Items, q)
    BY <2>1, <2>3, <2>5 DEF SavesAs
  <2>7. QED BY <1>1, <2>3, <2>4, <2>6, Called DEF Step, SavesIt
<1>4. QED BY <1>2, <1>3

LEMMA CreateInstanceStep ==
  ASSUME Typed, Programmed, Merging, NEW c \in Clients, CreateInstance(c)
  PROVE  Step(c)
<1> DEFINE q == [cmd[c] EXCEPT !.todo = <<"TakeBack">>]
<1>1. /\ At(c, "CreateInstance") /\ UNCHANGED store
      /\ Becomes(c, Goes(c)) \/ Becomes(c, q)
  BY DEF CreateInstance
<1>2. /\ <<"TakeBack">> \in Seq(Calls) /\ IsRest(cmd[c], <<"TakeBack">>)
  BY OneCall DEF Calls, AppCalls, MayCall, Altering, Saving
<1>3. /\ q \in Command /\ Kindred(q, cmd[c]) /\ q.key = cmd[c].key
      /\ q.todo = <<"TakeBack">>
  <2>1. cmd[c] \in Command
    BY <1>1, Called
  <2>2. QED BY <1>2, <2>1, WithTodo
<1>4. q.todo # <<>> /\ Head(q.todo) = "TakeBack" /\ "CreateInstance" \notin Saving
  BY <1>3 DEF Saving
<1> HIDE DEF q
<1>5. Becomes(c, q) => Step(c)
  BY <1>1, <1>2, <1>3, <1>4, LookingList DEF Bringing
<1>6. QED BY <1>1, <1>5, OnOrIdle

LEMMA TakeBackStep ==
  ASSUME Typed, Programmed, Merging, NEW c \in Clients, TakeBack(c)
  PROVE  Step(c)
<1>1. At(c, "TakeBack") /\ cmd[c] # Idle
  BY Called DEF TakeBack
<1>2. CASE S(c).p = cmd[c].p
  <2>1. Saves(c, Without(S(c)), Items, Idle)
    BY <1>2 DEF TakeBack
  <2>2. Without(S(c)) \in Stores /\ Without(S(c)).env = Unset
    BY OwnStore, NewStore
  <2>3. SavesAs(c, Without(S(c)), Items, Idle)
    BY <2>1, <2>2 DEF SavesAs, Follows
  <2>4. QED BY <1>1, <2>2, <2>3, IdleType DEF Step, SavesIt
<1>3. CASE S(c).p # cmd[c].p
  <2>1. Becomes(c, Idle) /\ UNCHANGED store
    BY <1>3 DEF TakeBack
  <2>2. QED BY <1>1, <2>1, LookingIdle
<1>4. QED BY <1>2, <1>3

LEMMA InstStep ==
  ASSUME Typed, Programmed, Merging, NEW c \in Clients, NEW x, At(c, x), x # "Decrypt",
         NEW i \in [of : Nat, st : {"none", "running"}],
         Saves(c, [S(c) EXCEPT !.inst = i], {"power"}, Goes(c))
  PROVE  Step(c)
<1> DEFINE t == [S(c) EXCEPT !.inst = i]
<1>1. t \in Stores /\ t.env = S(c).env /\ \A y \in Items \ {"power"} : Value(t, y) = Value(S(c), y)
  BY OwnStore, WithInst
<1>2. {"power"} \in SUBSET Items /\ Saves(c, t, {"power"}, Goes(c))
  BY DEF Items
<1> HIDE DEF t
<1>3. QED BY <1>1, <1>2, SavingOn

LEMMA SetInstanceStep ==
  ASSUME Typed, Programmed, Merging, NEW c \in Clients, SetInstance(c)
  PROVE  Step(c)
<1> DEFINE i == [of |-> cmd[c].p, st |-> "running"]
<1>1. At(c, "SetInstance")
  BY DEF SetInstance
<1>2. \/ Saves(c, [S(c) EXCEPT !.inst = i], {"power"}, Goes(c))
      \/ Becomes(c, Goes(c)) /\ UNCHANGED store
  BY DEF SetInstance
<1>3. i \in [of : Nat, st : {"none", "running"}]
  BY <1>1, Called DEF Command
<1> HIDE DEF i
<1>4. QED BY <1>1, <1>2, <1>3, InstStep, OnOrIdle

LEMMA DeleteInstanceStep ==
  ASSUME Typed, Programmed, Merging, NEW c \in Clients, DeleteInstance(c)
  PROVE  Step(c)
<1>1. At(c, "DeleteInstance")
  BY DEF DeleteInstance
<1>2. \/ Saves(c, [S(c) EXCEPT !.inst = NoInstance], {"power"}, Goes(c))
      \/ Saves(c, S(c), {}, Goes(c))
  BY DEF DeleteInstance
<1>3. NoInstance \in [of : Nat, st : {"none", "running"}]
  BY DEF NoInstance
<1>4. QED BY <1>1, <1>2, <1>3, InstStep, SaveOnStep

LEMMA UpdateProjectStep ==
  ASSUME Typed, Programmed, Merging, NEW c \in Clients, UpdateProject(c)
  PROVE  Step(c)
<1>1. At(c, "UpdateProject")
  BY DEF UpdateProject
<1>2. CASE S(c).p = cmd[c].p
  <2>1. Saves(c, S(c), {}, Goes(c))
    BY <1>2 DEF UpdateProject
  <2>2. QED BY <1>1, <2>1, SaveOnStep
<1>3. CASE S(c).p # cmd[c].p
  <2>1. (Becomes(c, Goes(c)) \/ Becomes(c, Idle)) /\ UNCHANGED store
    BY <1>3 DEF UpdateProject
  <2>2. QED BY <1>1, <1>3, <2>1, LookingOn, LookingIdle, Called
<1>4. QED BY <1>2, <1>3

LEMMA FindToDeleteStep ==
  ASSUME Typed, Programmed, Merging, NEW c \in Clients, FindToDelete(c)
  PROVE  Step(c)
<1> DEFINE f == [Goes(c) EXCEPT !.p = S(c).p]
           q == [f EXCEPT !.todo = <<"DeleteProject">>]
<1>1. /\ At(c, "FindToDelete") /\ UNCHANGED store
      /\ Becomes(c, Idle) \/ Becomes(c, f) \/ Becomes(c, q)
  BY DEF FindToDelete
<1>2. "FindToDelete" \notin Saving \cup Bringing \cup {"Decrypt"}
  BY DEF Saving, Bringing
<1>3. /\ <<"DeleteProject">> \in Seq(Calls) /\ IsRest(cmd[c], <<"DeleteProject">>)
  BY OneCall DEF Calls, AppCalls, MayCall, Altering, Saving
<1>4. S(c).p \in Nat
  BY OwnStore DEF Stores, Store
<1>5. f \in Command /\ Kindred(f, cmd[c]) /\ f.key = cmd[c].key
  BY <1>1, <1>4, GoesType, WithP DEF Kindred
<1>6. Becomes(c, f) => Step(c)
  BY <1>1, <1>2, FoundStep
<1> HIDE DEF f
<1>7. /\ q \in Command /\ Kindred(q, cmd[c]) /\ q.key = cmd[c].key
      /\ q.todo = <<"DeleteProject">>
  BY <1>3, <1>5, WithTodo DEF Kindred
<1>8. q.todo # <<>> /\ Head(q.todo) = "DeleteProject"
  BY <1>7
<1> HIDE DEF q
<1>9. Becomes(c, q) => Step(c)
  BY <1>1, <1>2, <1>3, <1>7, <1>8, LookingList DEF Bringing
<1>10. QED BY <1>1, <1>6, <1>9, LookingIdle, Called

LEMMA DeleteProjectStep ==
  ASSUME Typed, Programmed, Merging, NEW c \in Clients, DeleteProject(c)
  PROVE  Step(c)
<1>1. At(c, "DeleteProject")
  BY DEF DeleteProject
<1>2. \/ Saves(c, Without(S(c)), Items, Goes(c))
      \/ Becomes(c, Idle) /\ UNCHANGED store
  BY DEF DeleteProject
<1>3. Without(S(c)) \in Stores /\ Without(S(c)).env = Unset
  BY OwnStore, NewStore
<1>4. Saves(c, Without(S(c)), Items, Goes(c)) => Step(c)
  BY <1>1, <1>3, SavingOn DEF Bringing
<1>5. QED BY <1>1, <1>2, <1>4, LookingIdle, Called

LEMMA DestroyInstanceStep ==
  ASSUME Typed, Programmed, Merging, NEW c \in Clients, DestroyInstance(c)
  PROVE  Step(c)
BY OnOrIdle DEF DestroyInstance

\* Stopping, starting, and the status on record.
LEMMA PowerStep ==
  ASSUME Typed, Programmed, Merging, NEW c \in Clients,
         StopInstance(c) \/ Poll(c) \/ StartInstance(c)
  PROVE  Step(c)
<1>1. CASE StopInstance(c)
  <2>1. At(c, "StopInstance") /\ "StopInstance" \in Altering
    BY <1>1 DEF StopInstance, Altering
  <2>2. \/ Powered(c, "stopped", Goes(c))
        \/ Powered(c, "stopping", Idle)
        \/ Becomes(c, Idle) /\ UNCHANGED store
    BY <1>1 DEF StopInstance, store
  <2>3. QED BY <2>1, <2>2, PoweredStep, LookingIdle, Called
<1>2. CASE StartInstance(c)
  <2>1. At(c, "StartInstance") /\ "StartInstance" \in Altering
    BY <1>2 DEF StartInstance, Altering, Saving
  <2>2. \/ Powered(c, "running", Goes(c))
        \/ Powered(c, "starting", Idle)
        \/ Becomes(c, Idle) /\ UNCHANGED store
    BY <1>2 DEF StartInstance, store
  <2>3. QED BY <2>1, <2>2, PoweredStep, LookingIdle, Called
<1>3. CASE Poll(c)
  <2>1. At(c, "Poll") /\ "Poll" \in Altering
    BY <1>3 DEF Poll, Altering, Saving
  <2>2. Powered(c, Seen, Goes(c)) \/ Powered(c, Seen, Idle)
    BY <1>3 DEF Poll
  <2>3. QED BY <2>1, <2>2, SeenType, PoweredStep
<1>4. QED BY <1>1, <1>2, <1>3

LEMMA UpdateInstanceStep ==
  ASSUME Typed, Programmed, Merging, NEW c \in Clients, UpdateStopping(c) \/ UpdateInstance(c)
  PROVE  Step(c)
<1>1. PICK x \in {"UpdateStopping", "UpdateInstance"} : At(c, x)
  BY DEF UpdateStopping, UpdateInstance
<1>2. \/ Saves(c, [S(c) EXCEPT !.inst.st = "stopping"], {"power"}, Goes(c))
      \/ Saves(c, [S(c) EXCEPT !.inst.st = "stopped"], {"power"}, Goes(c))
      \/ Saves(c, S(c), {"power"}, Goes(c))
      \/ Becomes(c, Goes(c)) /\ UNCHANGED store
  BY DEF UpdateStopping, UpdateInstance
<1>3. Saves(c, S(c), {"power"}, Goes(c)) => Step(c)
  BY <1>1, OwnStore, SavingOn DEF Items
<1>4. QED BY <1>1, <1>2, <1>3, StateStep, OnOrIdle

LEMMA SetSizeStep ==
  ASSUME Typed, Programmed, Merging, NEW c \in Clients, SetSize(c)
  PROVE  Step(c)
<1> DEFINE s == [S(c) EXCEPT !.cpu = cmd[c].cpu]
           disk == IF cmd[c].disk = 0 THEN s.disk ELSE cmd[c].disk
           t == [s EXCEPT !.disk = disk]
<1>1. At(c, "SetSize") /\ "SetSize" \in Altering /\ {"size"} \in SUBSET Items
  BY DEF SetSize, Altering, Items
<1>2. cmd[c].cpu \in 1..2 /\ cmd[c].disk \in 0..MaxDisk
  BY <1>1, Called DEF Command
<1>3. /\ s \in Stores /\ s.env = S(c).env /\ s.p = S(c).p
      /\ \A y \in Items \ {"size"} : Value(s, y) = Value(S(c), y)
  BY <1>2, OwnStore, WithSize
<1> HIDE DEF s
<1>4. disk \in 0..MaxDisk
  BY <1>2, <1>3 DEF Stores, Store
<1> HIDE DEF disk
<1>5. /\ t \in Stores /\ t.env = S(c).env /\ t.p = S(c).p
      /\ \A y \in Items \ {"size"} : Value(t, y) = Value(S(c), y)
  <2>1. 1 \in 1..2
    OBVIOUS
  <2>2. /\ t \in Stores /\ t.env = s.env /\ t.p = s.p
        /\ \A y \in Items \ {"size"} : Value(t, y) = Value(s, y)
    BY <1>3, <1>4, <2>1, WithSize
  <2> HIDE DEF t
  <2>3. QED BY <1>3, <2>2
<1> HIDE DEF t
<1>6. \/ Becomes(c, Idle) /\ UNCHANGED store
      \/ /\ S(c).p = cmd[c].p
         /\ Alters(c, s, {"size"}, Idle) \/ Alters(c, t, {"size"}, Goes(c))
  BY DEF SetSize, HasInstance, s, t, disk
<1>7. CASE Becomes(c, Idle) /\ UNCHANGED store
  BY <1>1, <1>7, LookingIdle, Called
<1>8. CASE S(c).p = cmd[c].p /\ Alters(c, s, {"size"}, Idle)
  BY <1>1, <1>3, <1>8, AlteringOn
<1>9. CASE S(c).p = cmd[c].p /\ Alters(c, t, {"size"}, Goes(c))
  BY <1>1, <1>5, <1>9, AlteringOn
<1>10. QED BY <1>6, <1>7, <1>8, <1>9

LEMMA ResizeStep ==
  ASSUME Typed, Programmed, Merging, NEW c \in Clients, Resize(c)
  PROVE  Step(c)
<1>1. CASE CheckOff(c) \/ Define(c) \/ ResizeDisk(c)
  <2>1. PICK x \in {"CheckOff", "Define", "ResizeDisk"} : At(c, x)
    BY <1>1 DEF CheckOff, Define, ResizeDisk
  <2>2. (Becomes(c, Goes(c)) \/ Becomes(c, Idle)) /\ UNCHANGED store
    BY <1>1 DEF CheckOff, Define, ResizeDisk
  <2>3. QED BY <2>1, <2>2, OnOrIdle
<1>2. QED BY <1>1, SetSizeStep DEF Resize

\* The vault.
LEMMA KeyStep ==
  ASSUME Typed, Programmed, Merging, NEW c \in Clients, NEW x \in {"ReadKey", "WriteKey"},
         At(c, x), NEW k \in Keys, key' = k, Becomes(c, [Goes(c) EXCEPT !.key = k]),
         UNCHANGED store
  PROVE  Step(c)
<1> DEFINE q == [Goes(c) EXCEPT !.key = k]
<1>1. q \in Command /\ Kindred(q, cmd[c]) /\ q.todo = Rest(c) /\ q.key = k
  BY GoesType, WithKey DEF Kindred
<1>2. x \notin Saving \cup Bringing \cup {"Decrypt"}
  BY DEF Saving, Bringing
<1>3. Becomes(c, q)
  OBVIOUS
<1> HIDE DEF q
<1>4. QED BY <1>1, <1>2, <1>3, LookingWith

LEMMA ReadKeyStep ==
  ASSUME Typed, Programmed, Merging, NEW c \in Clients, ReadKey(c)
  PROVE  Step(c)
<1> DEFINE l == <<"CreateKey", "WriteKey">>
           q == [cmd[c] EXCEPT !.todo = l \o Rest(c)]
<1>1. At(c, "ReadKey") /\ UNCHANGED store /\ key' = key
  BY DEF ReadKey, vault
<1>2. CASE key = None
  <2>1. Becomes(c, q)
    BY <1>2, NamesAssumption DEF ReadKey
  <2>2. /\ cmd[c] \in Command /\ Rest(c) \in Seq(Calls) /\ IsRest(cmd[c], Rest(c))
        /\ Rest(c) # <<>> => MayFollow(cmd[c], "ReadKey", Head(Rest(c)))
    BY <1>1, Called
  <2>3. Rest(c) # <<>> => MayFollow(cmd[c], "WriteKey", Head(Rest(c)))
    BY <2>2 DEF MayFollow, Altering, Saving, Bringing
  <2>4. l \in Seq(Calls) /\ IsRest(cmd[c], l)
    BY DEF Calls, AppCalls, IsRest, MayCall, MayFollow, Altering, Saving, Bringing
  <2>5. l # <<>> /\ Head(l) = "CreateKey" /\ l[Len(l)] = "WriteKey"
    OBVIOUS
  <2> HIDE DEF l
  <2>6. /\ l \o Rest(c) \in Seq(Calls) /\ IsRest(cmd[c], l \o Rest(c))
        /\ l \o Rest(c) # <<>> /\ Head(l \o Rest(c)) = "CreateKey"
    BY <2>2, <2>3, <2>4, <2>5, RestConcat
  <2>7. /\ q \in Command /\ Kindred(q, cmd[c]) /\ q.key = cmd[c].key
        /\ q.todo = l \o Rest(c)
    BY <2>2, <2>6, WithTodo
  <2> HIDE DEF q
  <2>8. "ReadKey" \notin Saving /\ "CreateKey" \notin Bringing
    BY DEF Saving, Bringing
  <2>9. QED BY <1>1, <1>2, <2>1, <2>6, <2>7, <2>8, LookingList
<1>3. CASE key = "torn"
  <2>1. Becomes(c, Idle)
    BY <1>3, NamesAssumption DEF ReadKey
  <2>2. QED BY <1>1, <2>1, LookingIdle, Called
<1>4. CASE key \notin {None, "torn"}
  <2>1. key \in Keys /\ Becomes(c, [Goes(c) EXCEPT !.key = key])
    BY <1>4 DEF ReadKey, Typed
  <2>2. PICK k \in Keys : k = key
    BY <2>1
  <2>3. QED BY <1>1, <2>1, <2>2, KeyStep
<1>5. QED BY <1>2, <1>3, <1>4

LEMMA SetEnvStep ==
  ASSUME Typed, Programmed, Merging, NEW c \in Clients, SetEnv(c)
  PROVE  Step(c)
<1> DEFINE env == IF cmd[c].val = None THEN S(c).env
                  ELSE [v |-> cmd[c].val, k |-> IF cmd[c].secret THEN cmd[c].key ELSE None]
           s == [S(c) EXCEPT !.env = env]
<1>1. At(c, "SetEnv") /\ "SetEnv" \in Altering /\ {"env"} \in SUBSET Items
  BY DEF SetEnv, Altering, Items
<1>2. /\ cmd[c].val \in Values \cup {None} /\ cmd[c].key \in Keys \cup {None}
      /\ S(c).env \in EnvValues
  BY <1>1, Called, OwnStore DEF Command, Stores, Store
<1>3. env \in EnvValues /\ env.k \in {S(c).env.k, None, cmd[c].key}
  BY <1>2 DEF EnvValues
<1>4. \/ S(c).p = cmd[c].p /\ Alters(c, s, {"env"}, Goes(c))
      \/ Becomes(c, Goes(c)) /\ UNCHANGED store
  BY DEF SetEnv
<1> HIDE DEF env
<1>5. /\ s \in Stores /\ s.env = env /\ s.p = S(c).p
      /\ \A y \in Items \ {"env"} : Value(s, y) = Value(S(c), y)
  BY <1>3, OwnStore, WithEnv
<1> HIDE DEF s
<1>6. S(c).p = cmd[c].p /\ Alters(c, s, {"env"}, Goes(c)) => Step(c)
  BY <1>1, <1>3, <1>5, AlteringOn
<1>7. QED BY <1>1, <1>4, <1>6, OnOrIdle

LEMMA DeleteEnvStep ==
  ASSUME Typed, Programmed, Merging, NEW c \in Clients, DeleteEnv(c)
  PROVE  Step(c)
<1> DEFINE q == [cmd[c] EXCEPT !.todo = <<"UpdateProject">>]
           s == [S(c) EXCEPT !.env = Unset]
<1>1. At(c, "DeleteEnv") /\ cmd[c] # Idle /\ cmd[c] \in Command
  BY Called DEF DeleteEnv
<1>2. \/ S(c).p = cmd[c].p /\ Alters(c, s, {"env"}, q)
      \/ Becomes(c, Idle) /\ UNCHANGED store
  BY DEF DeleteEnv
<1>3. <<"UpdateProject">> \in Seq(Calls) /\ IsRest(cmd[c], <<"UpdateProject">>)
  BY OneCall DEF Calls, AppCalls, MayCall, Altering, Saving
<1>4. /\ q \in Command /\ Kindred(q, cmd[c]) /\ q.key = cmd[c].key
      /\ q.todo = <<"UpdateProject">> /\ q.p = cmd[c].p
  BY <1>1, <1>3, WithTodo
<1>5. Unset \in EnvValues /\ {"env"} \in SUBSET Items
  BY DEF Unset, Plain, EnvValues, Items
<1>6. /\ s \in Stores /\ s.env = Unset /\ s.p = S(c).p
      /\ \A y \in Items \ {"env"} : Value(s, y) = Value(S(c), y)
  BY <1>5, OwnStore, WithEnv
<1> HIDE DEF q, s
<1>7. q.todo # <<>> /\ Head(q.todo) = "UpdateProject"
  BY <1>4
<1>8. Follows(c, q, s.env)
  BY <1>1, <1>3, <1>4, <1>7, ListFollows DEF Bringing
<1>9. WillSave(c, q)
  BY <1>4, <1>7 DEF WillSave, First, Saving
<1>10. S(c).p = cmd[c].p /\ Alters(c, s, {"env"}, q) => AltersAs(c, s, {"env"}, q)
  BY <1>6, <1>8, <1>9, UnsetKey DEF AltersAs
<1>11. QED BY <1>1, <1>2, <1>4, <1>5, <1>6, <1>10, LookingIdle DEF Step, AltersIt

LEMMA DecryptStep ==
  ASSUME Typed, Programmed, Merging, NEW c \in Clients, Decrypt(c)
  PROVE  Step(c)
<1> DEFINE v == S(c).env.v
           q == [Goes(c) EXCEPT !.clear = v]
           l == <<"ReadKey">>
           t == [cmd[c] EXCEPT !.todo = l \o @]
           u == [cmd[c] EXCEPT !.todo = l \o cmd[c].todo]
<1>1. At(c, "Decrypt") /\ UNCHANGED store /\ "Decrypt" \notin Saving
  BY DEF Decrypt, Saving
<1>2. /\ cmd[c] \in Command /\ cmd[c] # Idle /\ Ordered(cmd[c])
      /\ cmd[c].todo # <<>> /\ Head(cmd[c].todo) = "Decrypt"
  BY <1>1, Called
<1>3. t = u
  BY <1>2 DEF Command
<1>4. Becomes(c, q) \/ Becomes(c, u) \/ Becomes(c, Idle)
  BY <1>3 DEF Decrypt
<1>5. v \in Values \cup {None}
  BY OwnStore DEF Stores, Store, EnvValues
<1>6. /\ q \in Command /\ Kindred(q, cmd[c]) /\ q.todo = Rest(c) /\ q.key = cmd[c].key
      /\ q.clear = S(c).env.v
  BY <1>1, <1>5, GoesType, WithClear DEF Kindred
<1>7. l \in Seq(Calls) /\ IsRest(cmd[c], l) /\ l # <<>> /\ Head(l) = "ReadKey"
      /\ l[Len(l)] = "ReadKey"
  BY OneCall DEF Calls, AppCalls, MayCall, Altering, Saving
<1>8. cmd[c].todo \in Seq(Calls) /\ IsRest(cmd[c], cmd[c].todo)
  BY <1>2 DEF Command, Ordered
<1>9. MayFollow(cmd[c], "ReadKey", "Decrypt")
  BY DEF MayFollow, Altering, Saving, Bringing
<1> HIDE DEF l, q, t
<1>10. /\ l \o cmd[c].todo \in Seq(Calls) /\ IsRest(cmd[c], l \o cmd[c].todo)
       /\ l \o cmd[c].todo # <<>> /\ Head(l \o cmd[c].todo) = "ReadKey"
  BY <1>2, <1>7, <1>8, <1>9, RestConcat
<1>11. /\ u \in Command /\ Kindred(u, cmd[c]) /\ u.key = cmd[c].key
       /\ u.todo = l \o cmd[c].todo
  BY <1>2, <1>10, WithTodo
<1> HIDE DEF u
<1>12. CASE Becomes(c, q)
  BY <1>1, <1>6, <1>12, LookingWith
<1>13. CASE Becomes(c, u)
  BY <1>1, <1>10, <1>11, <1>13, LookingList DEF Bringing
<1>14. CASE Becomes(c, Idle)
  BY <1>1, <1>2, <1>14, LookingIdle
<1>15. QED BY <1>4, <1>12, <1>13, <1>14

LEMMA EnvironmentStep ==
  ASSUME Typed, Programmed, Merging, NEW c \in Clients, Environment(c)
  PROVE  Step(c)
<1>1. CASE CreateKey(c)
  BY <1>1, OnOrIdle DEF CreateKey
<1>2. ASSUME NEW k \in Keys, WriteKey(c, k) PROVE Step(c)
  BY <1>2, KeyStep DEF WriteKey
<1>3. QED BY <1>1, <1>2, ReadKeyStep, SetEnvStep, DeleteEnvStep, DecryptStep DEF Environment

\* A call about an app has one.
LEMMA CalledApp ==
  ASSUME Typed, Programmed, NEW c \in Clients, NEW x \in AppCalls, At(c, x)
  PROVE  cmd[c].app \in Apps /\ App(c) \in AppDefs
<1>1. cmd[c] \in Command /\ MayCall(cmd[c], x)
  BY Called
<1>2. cmd[c].app \in Apps
  BY <1>1 DEF MayCall, Command
<1>3. QED BY <1>2, OwnStore DEF App, Stores

\* An error ends a command, or what it does for a service.
LEMMA FailsStep ==
  ASSUME Typed, Programmed, Merging, NEW c \in Clients,
         NEW x \in {"GetApp", "CheckApp", "DeployApp"}, At(c, x), Fails(c), UNCHANGED store
  PROVE  Step(c)
<1> DEFINE q == [cmd[c] EXCEPT !.todo = <<"NextApp">>]
<1>1. /\ cmd[c] \in Command /\ cmd[c] # Idle /\ MayCall(cmd[c], x)
      /\ x \notin Saving /\ "NextApp" \notin {"WriteKey", "Define", "ResizeDisk", "CreateKey"}
  BY Called DEF Saving
<1>2. CASE Becomes(c, q) /\ cmd[c].op \in ForServices
  <2>1. <<"NextApp">> \in Seq(Calls) /\ IsRest(cmd[c], <<"NextApp">>)
    BY <1>2, OneCall DEF Calls, AppCalls, MayCall, Altering, Saving
  <2>2. /\ q \in Command /\ Kindred(q, cmd[c]) /\ q.key = cmd[c].key
        /\ q.todo = <<"NextApp">> /\ q.clear = cmd[c].clear
    BY <1>1, <2>1, WithTodo
  <2>3. Brings(cmd[c]) => q.clear = S(c).env.v
    <3> SUFFICES ASSUME Brings(cmd[c]) PROVE cmd[c].clear = mem[c].env.v
      BY <2>2 DEF S, Where, Brings
    <3>1. x = "DeployApp"
      BY <1>1, <1>2 DEF MayCall
    <3>2. QED BY <3>1 DEF Merging, Bringing
  <2>4. q.todo # <<>> /\ Head(q.todo) = "NextApp"
    BY <2>2
  <2> HIDE DEF q
  <2>5. Becomes(c, q)
    BY <1>2
  <2>6. QED BY <1>1, <2>1, <2>2, <2>3, <2>4, <2>5, LookingList
<1>3. CASE Becomes(c, Idle)
  BY <1>1, <1>3, LookingIdle
<1>4. QED BY <1>2, <1>3 DEF Fails

LEMMA GetAppStep ==
  ASSUME Typed, Programmed, Merging, NEW c \in Clients, GetApp(c)
  PROVE  Step(c)
<1> DEFINE a == IF ToSave(c) THEN App(c) ELSE Goes(c).got
           q == [Goes(c) EXCEPT !.got = a]
           u == [Goes(c) EXCEPT !.got = IF ToSave(c) THEN App(c) ELSE @]
<1>1. At(c, "GetApp") /\ UNCHANGED store /\ (Becomes(c, u) \/ Fails(c))
  BY DEF GetApp
<1>2. Goes(c) \in Command /\ App(c) \in AppDefs
  BY <1>1, GoesType, CalledApp DEF AppCalls
<1>3. u = q
  BY <1>2 DEF Command
<1>4. a \in AppDefs
  BY <1>2 DEF Command
<1> HIDE DEF a, u
<1>5. q \in Command /\ Kindred(q, cmd[c]) /\ q.todo = Rest(c) /\ q.key = cmd[c].key
  BY <1>1, <1>2, <1>4, GoesType, WithGot DEF Kindred
<1>6. "GetApp" \notin Saving \cup Bringing \cup {"Decrypt"}
  BY DEF Saving, Bringing
<1> HIDE DEF q
<1>7. Becomes(c, q) => Step(c)
  BY <1>1, <1>5, <1>6, LookingWith
<1>8. QED BY <1>1, <1>3, <1>7, FailsStep

\* A service that exists is deployed as it is.
LEMMA CheckAppStep ==
  ASSUME Typed, Programmed, Merging, NEW c \in Clients, CheckApp(c)
  PROVE  Step(c)
<1> DEFINE r == cmd[c]
           t == Tail(Rest(c))
           q == [r EXCEPT !.todo = t]
<1>1. /\ At(c, "CheckApp") /\ UNCHANGED store
      /\ Fails(c) \/ Becomes(c, Goes(c)) \/ Becomes(c, Idle) \/ Becomes(c, q)
  BY DEF CheckApp
<1>2. /\ r \in Command /\ r # Idle /\ r.op # "idle" /\ Ordered(r) /\ MayCall(r, "CheckApp")
      /\ Rest(c) \in Seq(Calls) /\ IsRest(r, Rest(c)) /\ Rest(c) # <<>>
      /\ MayFollow(r, "CheckApp", Head(Rest(c)))
  BY <1>1, Called
<1>3. Head(Rest(c)) = "SetApp" /\ ~Brings(r)
  BY <1>2 DEF MayFollow, MayCall
<1>4. /\ t \in Seq(Calls) /\ IsRest(r, t)
      /\ t # <<>> => MayFollow(r, "SetApp", Head(t))
  BY <1>2, <1>3, RestTail
<1> HIDE DEF t
<1>5. q \in Command /\ Kindred(q, r) /\ q.key = r.key /\ q.todo = t
  BY <1>2, <1>4, WithTodo
<1> HIDE DEF q
<1>6. Becomes(c, q) => Step(c)
  <2> SUFFICES ASSUME Becomes(c, q) PROVE Step(c)
    OBVIOUS
  <2>1. /\ q.op = r.op /\ q.api = r.api /\ q.alone = r.alone /\ q.eff = r.eff /\ q.app = r.app
        /\ ~Brings(q)
    BY <1>3, <1>5 DEF Kindred, Brings
  <2>2. IsRest(q, q.todo)
    BY <1>4, <1>5, <2>1, RestSame
  <2>3. Ordered(q)
    BY <1>2, <2>1, <2>2 DEF Ordered
  <2>4. \A y \in {"CreateKey", "WriteKey", "Define", "ResizeDisk"} : ~First(q, y)
    BY <1>4, <1>5 DEF First, MayFollow
  <2>5. Follows(c, q, S(c).env)
    BY <1>2, <1>5, <2>1, <2>3, <2>4 DEF Follows
  <2>6. ~Pending(c)
    BY <1>1 DEF Pending, At, Saving
  <2>7. QED BY <1>1, <1>2, <1>5, <2>5, <2>6, Looking
<1>7. QED BY <1>1, <1>2, <1>6, FailsStep, OnOrIdle

LEMMA PutAppStep ==
  ASSUME Typed, Programmed, Merging, NEW c \in Clients, NEW x \in AppCalls, At(c, x),
         NEW app \in AppDefs, PutApp(c, app)
  PROVE  Step(c)
<1> DEFINE s == [S(c) EXCEPT !.apps[cmd[c].app] = app]
<1>1. cmd[c].app \in Apps /\ x # "Decrypt"
  BY CalledApp DEF AppCalls
<1>2. /\ s \in Stores /\ s.env = S(c).env
      /\ \A y \in Items \ {cmd[c].app} : Value(s, y) = Value(S(c), y)
  BY <1>1, OwnStore, WithApp
<1>3. {cmd[c].app} \in SUBSET Items
  BY <1>1 DEF Items
<1>4. \/ Saves(c, s, {cmd[c].app}, Goes(c))
      \/ Saves(c, S(c), {}, Goes(c))
  BY DEF PutApp
<1> HIDE DEF s
<1>5. QED BY <1>1, <1>2, <1>3, <1>4, SavingOn, SaveOnStep

LEMMA FoundType ==
  ASSUME Typed, Programmed, NEW c \in Clients, NEW x \in AppCalls, At(c, x)
  PROVE  Found(c) \in AppDefs
<1>1. cmd[c].got \in AppDefs /\ App(c) \in AppDefs
  BY Called, CalledApp DEF Command
<1>2. QED BY <1>1 DEF Found

LEMMA SetAppStep ==
  ASSUME Typed, Programmed, Merging, NEW c \in Clients, SetApp(c)
  PROVE  Step(c)
<1> DEFINE e == IF cmd[c].api \/ cmd[c].op \notin ForServices THEN Plain(cmd[c].val)
                ELSE Merged(c, Plain(cmd[c].val))
           new == [v |-> e.v, k |-> e.k, mine |-> cmd[c].val # None]
           app == IF cmd[c].op = "app edit" /\ cmd[c].val = None THEN Found(c) ELSE new
<1>1. At(c, "SetApp") /\ PutApp(c, app)
  BY DEF SetApp
<1>2. cmd[c].val \in Values \cup {None} /\ cmd[c].clear \in Values \cup {None}
  BY <1>1, Called DEF Command
<1>3. e \in {Plain(cmd[c].val), Plain(cmd[c].clear)} /\ (cmd[c].val # None => e.v = cmd[c].val)
  BY DEF Merged, Plain
<1>4. e.k = None /\ e.v \in Values \cup {None}
  BY <1>2, <1>3 DEF Plain
<1> HIDE DEF e
<1>5. new \in AppDefs
  BY <1>3, <1>4 DEF AppDefs
<1>6. Found(c) \in AppDefs
  BY <1>1, FoundType DEF AppCalls
<1> HIDE DEF new
<1>7. app \in AppDefs
  BY <1>5, <1>6
<1> HIDE DEF app
<1>8. QED BY <1>1, <1>7, PutAppStep DEF AppCalls

LEMMA AppStep ==
  ASSUME Typed, Programmed, Merging, NEW c \in Clients,
         SaveApp(c) \/ DeleteApp(c) \/ DeployApp(c) \/ StopApp(c) \/ RemoveApp(c) \/ Build(c)
  PROVE  Step(c)
<1>1. CASE SaveApp(c)
  <2>1. At(c, "SaveApp") /\ PutApp(c, Found(c))
    BY <1>1 DEF SaveApp
  <2>2. Found(c) \in AppDefs
    BY <2>1, FoundType DEF AppCalls
  <2>3. QED BY <2>1, <2>2, PutAppStep DEF AppCalls
<1>2. CASE DeleteApp(c)
  <2>1. At(c, "DeleteApp") /\ PutApp(c, NoApp)
    BY <1>2 DEF DeleteApp
  <2>2. NoApp \in AppDefs
    BY DEF AppDefs
  <2>3. QED BY <2>1, <2>2, PutAppStep DEF AppCalls
<1>3. CASE DeployApp(c)
  <2>1. At(c, "DeployApp") /\ UNCHANGED store /\ (Becomes(c, Goes(c)) \/ Fails(c))
    BY <1>3 DEF DeployApp
  <2>2. QED BY <2>1, OnOrIdle, FailsStep
<1>4. CASE StopApp(c) \/ RemoveApp(c) \/ Build(c)
  <2>1. PICK x \in {"StopApp", "RemoveApp", "Build"} : At(c, x)
    BY <1>4 DEF StopApp, RemoveApp, Build
  <2>2. (Becomes(c, Goes(c)) \/ Becomes(c, Idle)) /\ UNCHANGED store
    BY <1>4 DEF StopApp, RemoveApp, Build
  <2>3. QED BY <2>1, <2>2, OnOrIdle
<1>5. QED BY <1>1, <1>2, <1>3, <1>4

\* The calls for the next service come before those for the others.
LEMMA NextAppStep ==
  ASSUME Typed, Programmed, Merging, NEW c \in Clients, NEW a \in Apps, NextApp(c, a)
  PROVE  Step(c)
<1> DEFINE r == cmd[c]
           f == ForApp(r)
           s == f \o r.todo
           t == [r EXCEPT !.app = a]
           u == [r EXCEPT !.todo = f \o @, !.app = a, !.left = @ \ {a}]
           q == [r EXCEPT !.todo = s, !.app = a, !.left = r.left \ {a}]
<1>1. /\ At(c, "NextApp") /\ UNCHANGED store /\ Becomes(c, u)
  BY DEF NextApp
<1>2. /\ r \in Command /\ r # Idle /\ r.op # "idle" /\ Ordered(r) /\ MayCall(r, "NextApp")
      /\ r.todo # <<>> /\ Head(r.todo) = "NextApp"
  BY <1>1, Called
<1>3. r.op \in ForServices /\ r.op \notin ForOne /\ a # None
  BY <1>2, NoneAssumption DEF MayCall, ForServices, ForOne
<1>4. u = q /\ t.op = r.op /\ t.api = r.api /\ t.app = a
  BY <1>2 DEF Command
<1>5. f = ForApp(t)
  BY <1>4 DEF ForApp
<1>6. ServiceList(t, f)
  <2> HIDE DEF t, f
  <2>1. QED BY <1>3, <1>4, <1>5, ServicePrograms
<1>7. r.todo \in Seq(Calls) /\ IsRest(r, r.todo)
  BY <1>2 DEF Command, Ordered
<1> HIDE DEF f, t, u
<1>8. /\ f \in Seq(Calls) /\ f # <<>> /\ IsRest(t, f)
      /\ Head(f) \in {"GetApp", "RemoveApp", "CheckApp", "SetApp"}
      /\ f[Len(f)] \in {"DeployApp", "DeleteApp"}
      /\ Brings(t) => f[Len(f)] = "DeployApp"
  BY <1>6 DEF ServiceList
<1>9. IsRest(t, r.todo)
  BY <1>3, <1>4, <1>7, RestSame
<1>10. MayFollow(t, f[Len(f)], "NextApp")
  BY <1>8 DEF MayFollow, Altering, Saving, Bringing
<1>11. /\ s \in Seq(Calls) /\ IsRest(t, s) /\ s # <<>> /\ Head(s) = Head(f)
  BY <1>2, <1>7, <1>8, <1>9, <1>10, RestConcat
<1> HIDE DEF s
<1>12. /\ q \in Command /\ q.op = r.op /\ q.api = r.api /\ q.alone = r.alone
       /\ q.eff = r.eff /\ q.app = a /\ q.todo = s /\ q.key = r.key /\ q.clear = r.clear
  <2>1. r \in Command /\ s \in Seq(Calls)
    BY <1>2, <1>11
  <2> HIDE DEF r
  <2>2. QED BY <2>1 DEF Command
<1> HIDE DEF q
<1>13. Ordered(q)
  <2>1. IsRest(q, s)
    BY <1>4, <1>11, <1>12, RestSame
  <2>2. QED BY <1>3, <1>12, <2>1 DEF Ordered
<1>14. \A y \in {"CreateKey", "WriteKey", "Define", "ResizeDisk"} : ~First(q, y)
  BY <1>8, <1>11, <1>12 DEF First
<1>15. Brings(q) => q.clear = S(c).env.v
  <2> SUFFICES ASSUME Brings(q) PROVE r.clear = mem[c].env.v
    BY <1>12 DEF S, Where, Brings
  <2>1. Brings(r)
    BY <1>12 DEF Brings
  <2>2. QED BY <1>1, <2>1 DEF Merging, Bringing
<1>16. Follows(c, q, S(c).env)
  BY <1>2, <1>12, <1>13, <1>14, <1>15 DEF Follows
<1>17. ~Pending(c)
  BY <1>1 DEF Pending, At, Saving
<1>18. QED BY <1>1, <1>2, <1>4, <1>12, <1>16, <1>17, Looking

LEMMA ApplicationStep ==
  ASSUME Typed, Programmed, Merging, NEW c \in Clients, Application(c)
  PROVE  Step(c)
<1>1. CASE LastApp(c)
  BY <1>1, OnOrIdle DEF LastApp
<1>2. QED BY <1>1, GetAppStep, CheckAppStep, SetAppStep, AppStep, NextAppStep DEF Application

LEMMA ProjectStep ==
  ASSUME Typed, Programmed, Merging, NEW c \in Clients, Project(c)
  PROVE  Step(c)
BY ReconcileStep, ShowStep, FindStep, FindOrCreateStep, CreateProjectStep, CreateInstanceStep,
   TakeBackStep, SetInstanceStep, DeleteInstanceStep, UpdateProjectStep, FindToDeleteStep,
   DeleteProjectStep, DestroyInstanceStep, PowerStep, UpdateInstanceStep DEF Project
-----------------------------------------------------------------------------
(* The memories keep their invariant.                                       *)

Kept(c) == /\ UNCHANGED world /\ Unlocks(c) /\ raced' \in BOOLEAN
           /\ key' \in Keys \cup {None, "torn"} /\ keys' \subseteq Keys

LEMMA CallKept ==
  ASSUME Typed, NEW c \in Clients, NEW x, At(c, x), x # "CreateKey",
         UNCHANGED <<world, vault>>
  PROVE  Kept(c)
BY DEF Kept, Unlocks, At, vault, Typed

LEMMA ProjectKept ==
  ASSUME Typed, NEW c \in Clients, Project(c)
  PROVE  Kept(c)
<1> DEFINE P == {"Reconcile", "Show", "FindProject", "FindOrCreate", "Find", "CreateProject",
                 "CreateInstance", "TakeBack", "SetInstance", "UpdateProject"}
           Q == {"FindToDelete", "DestroyInstance", "DeleteInstance", "DeleteProject",
                 "StopInstance", "UpdateStopping", "Poll", "StartInstance", "UpdateInstance"}
<1>1. CASE Reconcile(c) \/ CannotReconcile(c) \/ Show(c) \/ FindProject(c) \/ FindOrCreate(c)
           \/ Find(c) \/ CreateProject(c) \/ CreateInstance(c) \/ TakeBack(c)
           \/ SetInstance(c) \/ UpdateProject(c)
  <2>1. UNCHANGED <<world, vault>> /\ \E x \in P : At(c, x)
    BY <1>1 DEF Reconcile, CannotReconcile, Show, FindProject, FindOrCreate, Find, CreateProject,
                CreateInstance, TakeBack, SetInstance, UpdateProject
  <2>2. QED BY <2>1, CallKept
<1>2. CASE FindToDelete(c) \/ DestroyInstance(c) \/ DeleteInstance(c) \/ DeleteProject(c)
           \/ StopInstance(c) \/ UpdateStopping(c) \/ Poll(c) \/ StartInstance(c)
           \/ UpdateInstance(c)
  <2>1. UNCHANGED <<world, vault>> /\ \E x \in Q : At(c, x)
    BY <1>2 DEF FindToDelete, DestroyInstance, DeleteInstance, DeleteProject, StopInstance,
                UpdateStopping, Poll, StartInstance, UpdateInstance
  <2>2. QED BY <2>1, CallKept
<1>3. QED BY <1>1, <1>2 DEF Project

LEMMA OtherKept ==
  ASSUME Typed, NEW c \in Clients, Resize(c) \/ Application(c)
  PROVE  Kept(c)
<1>1. CASE Resize(c)
  <2>1. UNCHANGED <<world, vault>>
        /\ \E x \in {"SetSize", "CheckOff", "Define", "ResizeDisk"} : At(c, x)
    BY <1>1 DEF Resize, SetSize, CheckOff, Define, ResizeDisk
  <2>2. QED BY <2>1, CallKept
<1>2. CASE Application(c)
  <2>1. UNCHANGED <<world, vault>> /\ \E x \in AppCalls \cup {"Build", "NextApp"} : At(c, x)
    BY <1>2 DEF Application, AppCalls, GetApp, CheckApp, SaveApp, SetApp, DeployApp, StopApp,
                RemoveApp, DeleteApp, Build, LastApp, NextApp
  <2>2. "CreateKey" \notin AppCalls \cup {"Build", "NextApp"}
    BY DEF AppCalls
  <2>3. QED BY <2>1, <2>2, CallKept
<1>3. QED BY <1>1, <1>2

LEMMA EnvironmentKept ==
  ASSUME Typed, NEW c \in Clients, Environment(c)
  PROVE  Kept(c)
<1>1. CASE ReadKey(c) \/ SetEnv(c) \/ DeleteEnv(c) \/ Decrypt(c)
  <2>1. UNCHANGED <<world, vault>>
        /\ \E x \in {"ReadKey", "SetEnv", "DeleteEnv", "Decrypt"} : At(c, x)
    BY <1>1 DEF ReadKey, SetEnv, DeleteEnv, Decrypt
  <2>2. QED BY <2>1, CallKept
<1>2. CASE CreateKey(c)
  BY <1>2 DEF CreateKey, Kept, Unlocks, Typed
<1>3. ASSUME NEW k \in Keys, WriteKey(c, k) PROVE Kept(c)
  BY <1>3 DEF WriteKey, Kept, Unlocks, Typed
<1>4. QED BY <1>1, <1>2, <1>3 DEF Environment

LEMMA EffectMemories ==
  ASSUME Typed, Programmed, Sealed, Merging, NEW c \in Clients, cmd[c] # Idle, Kept(c),
         NEW r \in Command, NEW E \in SUBSET Items, NEW env, Effect(c, r, E, env)
  PROVE  Typed' /\ Programmed' /\ Sealed' /\ Merging'
<1>1. Unlocks(c) /\ UNCHANGED <<scope, begun, up>>
  BY DEF Kept, world
<1>2. Typed'
  BY <1>1 DEF Typed, Kept, Effect, Moves
<1>3. QED BY <1>1, <1>2, EffectProgrammed, EffectSealed, EffectMerging

LEMMA CallMemories ==
  ASSUME Memories, NEW c \in Clients, Step(c), Kept(c)
  PROVE  Memories'
<1>1. /\ Typed /\ Programmed /\ Sealed /\ Merging /\ Honest /\ cmd[c] # Idle /\ UNCHANGED up
  BY DEF Memories, Step, Kept, world
<1>2. PICK r \in Command, E \in SUBSET Items, env \in EnvValues : Effect(c, r, E, env)
  BY <1>1, StepEffect
<1>3. Typed' /\ Programmed' /\ Sealed' /\ Merging'
  BY <1>1, <1>2, EffectMemories
<1>4. Honest'
  BY <1>1, StepHonest
<1>5. QED BY <1>3, <1>4 DEF Memories

LEMMA CallsMemories ==
  ASSUME Memories, NEW c \in Clients,
         Project(c) \/ Resize(c) \/ Environment(c) \/ Application(c)
  PROVE  Memories'
<1>1. Typed /\ Programmed /\ Merging
  BY DEF Memories
<1>2. Step(c)
  BY <1>1, ProjectStep, ResizeStep, EnvironmentStep, ApplicationStep
<1>3. Kept(c)
  BY <1>1, ProjectKept, OtherKept, EnvironmentKept
<1>4. QED BY <1>2, <1>3, CallMemories

\* A command that ends.
LEMMA EndsEffect ==
  ASSUME Typed, Programmed, Sealed, Merging, NEW c \in Clients, cmd[c] # Idle,
         Becomes(c, Idle), UNCHANGED <<world, file, mem, fresh, vault>>,
         \A t \in told' : t[1] \in Items
  PROVE  /\ Typed' /\ Programmed' /\ Sealed' /\ Merging'
         /\ cmd'[c] = Idle /\ \A d \in Clients \ {c} : cmd'[d] = cmd[d]
<1>1. Becomes(c, Changing(Idle, {}))
  BY DEF Changing
<1>2. Moves(c, Idle, {}) /\ \A d \in Clients \ {c} : cmd'[d] = cmd[d]
  BY <1>1, IdleType, BecomesMoves
<1>3. file' = file /\ mem' = mem /\ fresh' = fresh
  OBVIOUS
<1>4. Effect(c, Idle, {}, S(c).env)
  BY <1>2, <1>3, WhereType DEF Effect, Typed, S, Follows
<1>5. cmd'[c] = Idle
  BY <1>2 DEF Moves, Changing
<1>6. Kept(c)
  BY <1>5 DEF Kept, Unlocks, vault, Typed
<1>7. QED BY <1>2, <1>4, <1>5, <1>6, IdleType, EffectMemories

LEMMA EndsSettled ==
  ASSUME NEW c \in Clients, cmd'[c] = Idle, \A d \in Clients \ {c} : cmd'[d] = cmd[d],
         UNCHANGED <<up, file, mem, fresh>>, fresh \subseteq Clients \cup {Server}
  PROVE  /\ \A x : Settled(x) => Settled(x)'
         /\ \A d \in Clients \ {c} : /\ Where(d)' = Where(d) /\ Pending(d)' = Pending(d)
                                     /\ \A x : Same(Where(d), x)' = Same(Where(d), x)
<1>1. file' = file /\ mem' = mem /\ fresh' = fresh /\ up' = up
  OBVIOUS
<1>2. ASSUME NEW d \in Clients \ {c}
      PROVE  Where(d)' = Where(d) /\ Pending(d)' = Pending(d)
  BY <1>1 DEF Where, Pending, S, At
<1>3. \A w, x : Same(w, x)' = Same(w, x)
  BY <1>1 DEF Same
<1>4. ASSUME NEW w \in Clients \cup {Server}, Alive(w)'
      PROVE  Alive(w) /\ w # c
  BY <1>1, <1>4, NamesAssumption DEF Alive, Busy
<1>5. ASSUME NEW x, Settled(x) PROVE Settled(x)'
  <2> SUFFICES ASSUME NEW w \in fresh', Alive(w)'
               PROVE  Same(w, x)' \/ (w # Server /\ x \in cmd'[w].eff /\ Pending(w)')
    BY DEF Settled
  <2>1. w \in fresh /\ w \in Clients \cup {Server} /\ Alive(w) /\ w # c
    BY <1>1, <1>4
  <2>2. Same(w, x) \/ (w # Server /\ x \in cmd[w].eff /\ Pending(w))
    BY <1>5, <2>1 DEF Settled
  <2>3. QED BY <1>2, <1>3, <2>1, <2>2
<1>6. QED BY <1>1, <1>2, <1>3, <1>5

LEMMA KilledMemories ==
  ASSUME Memories, NEW c \in Clients, Killed(c)
  PROVE  Memories'
<1>1. /\ Typed /\ Programmed /\ Sealed /\ Merging /\ Honest /\ cmd[c] # Idle /\ Becomes(c, Idle)
      /\ UNCHANGED <<world, store, vault>> /\ UNCHANGED <<up, file, mem, fresh, told>>
  BY DEF Memories, Killed, world, store
<1>2. Step(c)
  BY <1>1, LookingIdle
<1>3. Honest'
  BY <1>1, <1>2, StepHonest
<1>4. \A t \in told' : t[1] \in Items
  BY <1>1 DEF Typed
<1>5. Typed' /\ Programmed' /\ Sealed' /\ Merging'
  BY <1>1, <1>4, EndsEffect
<1>6. QED BY <1>3, <1>5 DEF Memories

LEMMA ConfirmsMemories ==
  ASSUME Memories, NEW c \in Clients, Confirms(c)
  PROVE  Memories'
<1>1. /\ Typed /\ Programmed /\ Sealed /\ Merging /\ Honest /\ cmd[c] # Idle
      /\ cmd[c].todo = <<>> /\ Becomes(c, Idle)
      /\ UNCHANGED <<world, file, mem, fresh, vault>> /\ UNCHANGED up
      /\ told' = Except(cmd[c].eff) \cup {<<x, Value(S(c), x)>> : x \in cmd[c].eff}
  BY DEF Memories, Confirms, world
<1>2. cmd[c].eff \in SUBSET Items
  BY <1>1 DEF Typed, Command
<1>3. \A t \in told' : t \in told \/ \E x \in cmd[c].eff : t = <<x, Value(S(c), x)>>
  BY <1>1 DEF Except
<1>4. \A t \in told' : t[1] \in Items
  BY <1>1, <1>2, <1>3 DEF Typed
<1>5. ~Pending(c)
  BY <1>1 DEF At, Pending
<1>6. /\ Typed' /\ Programmed' /\ Sealed' /\ Merging'
      /\ cmd'[c] = Idle /\ \A d \in Clients \ {c} : cmd'[d] = cmd[d]
  BY <1>1, <1>4, EndsEffect
<1>7. /\ \A x : Settled(x) => Settled(x)'
      /\ \A d \in Clients \ {c} : /\ Where(d)' = Where(d) /\ Pending(d)' = Pending(d)
                                  /\ \A x : Same(Where(d), x)' = Same(Where(d), x)
  BY <1>1, <1>6, EndsSettled DEF Typed
<1>8. /\ \A t \in told : Value(file, t[1]) = t[2] /\ Settled(t[1])
      /\ \A d \in Clients : \A x \in cmd[d].eff :
           Pending(d) \/ (Same(Where(d), x) /\ Settled(x))
  BY <1>1 DEF Honest
<1>9. ASSUME NEW t \in told' PROVE Value(file', t[1]) = t[2] /\ Settled(t[1])'
  <2>1. CASE t \in told
    BY <1>1, <1>7, <1>8, <2>1
  <2>2. ASSUME NEW x \in cmd[c].eff, t = <<x, Value(S(c), x)>>
        PROVE  Value(file', t[1]) = t[2] /\ Settled(t[1])'
    <3>1. Same(Where(c), x) /\ Settled(x)
      BY <1>5, <1>8
    <3>2. t[1] = x /\ t[2] = Value(S(c), x)
      BY <2>2
    <3>3. Value(file, x) = Value(S(c), x)
      BY <3>1 DEF Same, S
    <3>4. QED BY <1>1, <1>7, <3>1, <3>2, <3>3
  <2>3. QED BY <1>3, <2>1, <2>2
<1>10. ASSUME NEW d \in Clients, NEW x \in cmd'[d].eff
       PROVE  Pending(d)' \/ (Same(Where(d), x)' /\ Settled(x)')
  <2>1. d # c /\ cmd'[d] = cmd[d]
    BY <1>6, <1>10, IdleType
  <2>2. QED BY <1>7, <1>8, <2>1
<1>11. Honest'
  BY <1>9, <1>10 DEF Honest
<1>12. QED BY <1>6, <1>11 DEF Memories
-----------------------------------------------------------------------------
(* A command begins.                                                        *)

LEMMA RequestType ==
  ASSUME NEW r \in Requests
  PROVE  /\ r \in Command /\ Ready(r) /\ r.key = None /\ r.eff = {} /\ r.op # "idle"
         /\ r.app # None => r.op \in ForOne
<1>1. PICK op \in Ops, api \in BOOLEAN, a \in Apps \cup {None}, svc \in {{}, Apps},
           v \in Values \cup {None}, t \in BOOLEAN, n \in 1..2, d \in 0..MaxDisk :
             r = Request(op, api, a, svc, v, t, n, d)
  BY DEF Requests
<1>2. Given(r)
  BY DEF Requests
<1>3. r = [op |-> op, api |-> api, todo |-> <<>>, p |-> 0, app |-> a,
           left |-> svc, val |-> v, secret |-> t, key |-> None,
           clear |-> None, got |-> NoApp, cpu |-> n, disk |-> d, eff |-> {},
           alone |-> TRUE]
  BY <1>1 DEF Request, Idle
<1>4. NoApp \in AppDefs
  BY DEF AppDefs
<1>5. <<>> \in Seq(Calls)
  OBVIOUS
<1>6. r \in Command
  BY <1>3, <1>4, <1>5 DEF Command
<1>7. r.op = op /\ r.api = api /\ r.key = None /\ r.eff = {}
  BY <1>3
<1>8. (r.app # None) = (r.op \in ForOne)
  BY <1>2 DEF Given
<1>9. QED BY <1>6, <1>7, <1>8, NotOps DEF Ready

\* What it has to do.
LEMMA Begins ==
  ASSUME NEW r, Ready(r), NEW s \in {Program(r), <<"Reconcile">> \o Program(r)}
  PROVE  /\ s \in Seq(Calls) /\ IsRest(r, s) /\ s # <<>>
         /\ Head(s) \in Starts \cup {"Reconcile"}
<1> DEFINE t == Program(r)
           l == <<"Reconcile">>
<1>1. t \in Seq(Calls) /\ IsRest(r, t) /\ t # <<>> /\ Head(t) \in Starts
  BY Programs DEF Fits
<1>2. /\ l \in Seq(Calls) /\ IsRest(r, l) /\ l # <<>> /\ Head(l) = "Reconcile"
      /\ l[Len(l)] = "Reconcile"
  BY OneCall DEF Calls, AppCalls, MayCall, Altering, Saving
<1>3. MayFollow(r, "Reconcile", Head(t))
  BY <1>1 DEF MayFollow, Altering, Saving, Bringing, Starts
<1>4. s = t \/ s = l \o t
  OBVIOUS
<1> HIDE DEF t, l
<1>5. l \o t \in Seq(Calls) /\ IsRest(r, l \o t) /\ l \o t # <<>> /\ Head(l \o t) = Head(l)
  BY <1>1, <1>2, <1>3, RestConcat
<1>6. QED BY <1>1, <1>2, <1>4, <1>5

\* The command that begins.
Begun(r) == [r EXCEPT !.todo = IF ~r.api /\ r.op \in NeedsRuntime \cup NeedsRuntimeOptional
                               THEN <<"Reconcile">> \o Program(r) ELSE Program(r),
                      !.alone = Busy = {}]

LEMMA BegunType ==
  ASSUME NEW r \in Requests
  PROVE  LET q == Begun(r)
         IN  /\ q \in Command /\ q # Idle /\ q.op # "idle" /\ Ordered(q)
             /\ q.api = r.api /\ q.key = None /\ q.eff = {} /\ (q.alone => Busy = {})
             /\ \A x : First(q, x) => x \in Starts \cup {"Reconcile"}
<1> DEFINE s == IF ~r.api /\ r.op \in NeedsRuntime \cup NeedsRuntimeOptional
                THEN <<"Reconcile">> \o Program(r) ELSE Program(r)
           b == (Busy = {})
           q == [r EXCEPT !.todo = s, !.alone = b]
<1>1. /\ r \in Command /\ Ready(r) /\ r.key = None /\ r.eff = {} /\ r.op # "idle"
      /\ r.app # None => r.op \in ForOne
  BY RequestType
<1>2. s \in {Program(r), <<"Reconcile">> \o Program(r)}
  OBVIOUS
<1>3. Begun(r) = q
  BY DEF Begun
<1>4. b \in BOOLEAN /\ (b => Busy = {})
  OBVIOUS
<1> HIDE DEF s, b
<1>5. /\ s \in Seq(Calls) /\ IsRest(r, s) /\ s # <<>> /\ Head(s) \in Starts \cup {"Reconcile"}
  BY <1>1, <1>2, Begins
<1>6. /\ q \in Command /\ q.op = r.op /\ q.api = r.api /\ q.app = r.app /\ q.todo = s
      /\ q.key = r.key /\ q.eff = r.eff /\ q.alone = b
  BY <1>1, <1>4, <1>5 DEF Command
<1> HIDE DEF q
<1>7. Ordered(q)
  <2>1. IsRest(q, s)
    BY <1>5, <1>6, RestSame
  <2>2. r.op \in ForOne => r.app # None
    BY <1>1 DEF Ready
  <2>3. QED BY <1>6, <2>1, <2>2 DEF Ordered
<1>8. q # Idle
  BY <1>1, <1>6, IdleType
<1>9. \A x : First(q, x) => x \in Starts \cup {"Reconcile"}
  BY <1>5, <1>6 DEF First
<1>10. QED BY <1>1, <1>3, <1>4, <1>6, <1>7, <1>8, <1>9

\* The others are no longer alone, and otherwise as they were.
Near(q, r) == /\ q.op = r.op /\ q.api = r.api /\ q.todo = r.todo /\ q.p = r.p /\ q.app = r.app
              /\ q.key = r.key /\ q.clear = r.clear /\ q.eff = r.eff

LEMMA NearOrdered ==
  ASSUME NEW q, NEW r, Near(q, r)
  PROVE  /\ Ordered(r) => Ordered(q)
         /\ Brings(q) = Brings(r)
         /\ \A x : First(q, x) = First(r, x)
<1>1. q.op = r.op /\ q.api = r.api /\ q.app = r.app /\ q.todo = r.todo
  BY DEF Near
<1>2. IsRest(r, r.todo) => IsRest(q, q.todo)
  BY <1>1, RestSame
<1>3. QED BY <1>1, <1>2 DEF Ordered, Brings, First

LEMMA WithAlone ==
  ASSUME NEW r \in Command, r.op = "idle" <=> r = Idle, NEW b \in BOOLEAN, r = Idle => b
  PROVE  LET q == [r EXCEPT !.alone = b]
         IN  /\ q \in Command /\ Near(q, r) /\ q.alone = b
             /\ q = Idle <=> r = Idle
<1> DEFINE q == [r EXCEPT !.alone = b]
<1>1. q \in Command /\ Near(q, r) /\ q.alone = b
  BY DEF Command, Near
<1>2. ASSUME q = Idle PROVE r = Idle
  BY <1>1, <1>2, IdleType DEF Near
<1>3. ASSUME r = Idle PROVE q = Idle
  <2>1. [Idle EXCEPT !.alone = Idle.alone] = Idle
    BY IdleType DEF Command
  <2>2. Idle.alone = TRUE /\ b = TRUE
    BY <1>3 DEF Idle
  <2>3. QED BY <1>3, <2>1, <2>2
<1>4. QED BY <1>1, <1>2, <1>3

\* What the beginning of a command makes of the others and of the memories.
Enters(c, q) ==
    /\ cmd' \in [Clients -> Command]
    /\ cmd[c] = Idle /\ cmd'[c] = q
    /\ q # Idle /\ q.op # "idle" /\ Ordered(q) /\ q.key = None /\ q.eff = {}
    /\ q.alone => \A d \in Clients : cmd[d] = Idle
    /\ q.api => up
    /\ \A x : First(q, x) => x \in Starts \cup {"Reconcile"}
    /\ \A d \in Clients \ {c} : /\ Near(cmd'[d], cmd[d])
                                /\ cmd'[d] = Idle <=> cmd[d] = Idle
                                /\ cmd'[d].alone => cmd'[d] = Idle
    /\ mem' \in [Clients \cup {Server} -> Stores]
    /\ \A w \in Clients \cup {Server} : w # c => mem'[w] = mem[w]
    /\ mem'[c] \in {mem[c], file} /\ (~q.api => mem'[c] = file)
    /\ fresh' \subseteq fresh \cup {c}
    /\ UNCHANGED <<scope, up, file, told, vault>> /\ begun' \in Nat

LEMMA BeginEnters ==
  ASSUME Typed, Programmed, NEW c \in Clients, CanBegin(c), NEW r \in Requests, Begin(c, r)
  PROVE  Enters(c, Begun(r))
<1> DEFINE q == Begun(r)
           f(d) == [cmd[d] EXCEPT !.alone = d \notin Busy]
<1>1. /\ q \in Command /\ q # Idle /\ q.op # "idle" /\ Ordered(q)
      /\ q.api = r.api /\ q.key = None /\ q.eff = {} /\ (q.alone => Busy = {})
      /\ \A x : First(q, x) => x \in Starts \cup {"Reconcile"}
  BY BegunType
<1>2. /\ cmd' = [d \in Clients |-> IF d = c THEN q ELSE f(d)]
      /\ r.api => up
      /\ begun' = begun + 1 /\ UNCHANGED <<scope, up, file, told, vault>>
      /\ \/ r.api /\ mem' = mem /\ fresh' = fresh
         \/ ~r.api /\ mem' = [mem EXCEPT ![c] = file] /\ fresh' = fresh \cup {c}
  BY DEF Begin, Begun
<1> HIDE DEF q
<1>3. ASSUME NEW d \in Clients
      PROVE  /\ f(d) \in Command /\ Near(f(d), cmd[d])
             /\ f(d) = Idle <=> cmd[d] = Idle
             /\ f(d).alone => f(d) = Idle
  <2>1. cmd[d] \in Command /\ (cmd[d].op = "idle" <=> cmd[d] = Idle)
    BY DEF Typed, Programmed
  <2> DEFINE b == (d \notin Busy)
  <2>2. b \in BOOLEAN /\ (cmd[d] = Idle => b) /\ (b => cmd[d] = Idle)
    BY DEF Busy
  <2> HIDE DEF b
  <2>3. LET e == [cmd[d] EXCEPT !.alone = b]
        IN  /\ e \in Command /\ Near(e, cmd[d]) /\ e.alone = b
            /\ e = Idle <=> cmd[d] = Idle
    BY <2>1, <2>2, WithAlone
  <2>4. f(d) = [cmd[d] EXCEPT !.alone = b]
    BY DEF b
  <2> HIDE DEF f
  <2>5. QED BY <2>2, <2>3, <2>4
<1> HIDE DEF f
<1>4. /\ cmd' \in [Clients -> Command] /\ cmd'[c] = q
      /\ \A d \in Clients \ {c} : cmd'[d] = f(d)
  BY <1>1, <1>2, <1>3
<1>5. cmd[c] = Idle /\ (q.alone => \A d \in Clients : cmd[d] = Idle)
  BY <1>1 DEF CanBegin, Busy
<1>6. /\ mem' \in [Clients \cup {Server} -> Stores]
      /\ \A w \in Clients \cup {Server} : w # c => mem'[w] = mem[w]
      /\ mem'[c] \in {mem[c], file} /\ (~q.api => mem'[c] = file)
      /\ fresh' \subseteq fresh \cup {c}
  BY <1>1, <1>2 DEF Typed
<1>7. begun' \in Nat /\ (q.api => up)
  BY <1>1, <1>2 DEF Typed
<1>8. /\ \A d \in Clients \ {c} : /\ Near(cmd'[d], cmd[d])
                                  /\ cmd'[d] = Idle <=> cmd[d] = Idle
                                  /\ cmd'[d].alone => cmd'[d] = Idle
  BY <1>3, <1>4
<1>9. Enters(c, q)
  BY <1>1, <1>2, <1>4, <1>5, <1>6, <1>7, <1>8 DEF Enters
<1>10. QED BY <1>9 DEF q

LEMMA EntersProgrammed ==
  ASSUME Typed, Programmed, NEW c \in Clients, NEW q, Enters(c, q)
  PROVE  Typed' /\ Programmed'
<1>1. /\ cmd' \in [Clients -> Command] /\ cmd[c] = Idle /\ cmd'[c] = q
      /\ q # Idle /\ q.op # "idle" /\ Ordered(q) /\ (q.api => up)
      /\ q.alone => \A d \in Clients : cmd[d] = Idle
      /\ UNCHANGED <<scope, up, file, told, vault>> /\ begun' \in Nat
      /\ mem' \in [Clients \cup {Server} -> Stores] /\ fresh' \subseteq fresh \cup {c}
  BY DEF Enters
<1>2. \A d \in Clients \ {c} : /\ Near(cmd'[d], cmd[d])
                               /\ cmd'[d] = Idle <=> cmd[d] = Idle
                               /\ cmd'[d].alone => cmd'[d] = Idle
  BY DEF Enters
<1>3. Typed'
  BY <1>1 DEF Typed, vault
<1>4. \A d \in Clients : LET r == cmd[d] IN
        /\ Ordered(r)
        /\ r.op = "idle" <=> r = Idle
        /\ r # Idle /\ r.api => up
  BY DEF Programmed
<1>5. ASSUME NEW d \in Clients
      PROVE  /\ Ordered(cmd'[d])
             /\ cmd'[d].op = "idle" <=> cmd'[d] = Idle
             /\ cmd'[d] # Idle /\ cmd'[d].api => up'
             /\ cmd'[d] # Idle /\ cmd'[d].alone => \A e \in Clients \ {d} : cmd'[e] = Idle
  <2>1. CASE d = c
    BY <1>1, <1>2, <2>1
  <2>2. CASE d # c
    <3>1. /\ Near(cmd'[d], cmd[d]) /\ (cmd'[d] = Idle <=> cmd[d] = Idle)
          /\ cmd'[d].alone => cmd'[d] = Idle
      BY <1>2, <2>2
    <3>2. Ordered(cmd'[d]) /\ cmd'[d].op = cmd[d].op /\ cmd'[d].api = cmd[d].api
      BY <1>4, <3>1, NearOrdered DEF Near
    <3>3. QED BY <1>1, <1>4, <3>1, <3>2
  <2>3. QED BY <2>1, <2>2
<1>6. QED BY <1>3, <1>5 DEF Programmed

LEMMA EntersSealed ==
  ASSUME Typed, Sealed, Merging, NEW c \in Clients, NEW q, Enters(c, q)
  PROVE  Sealed' /\ Merging'
<1>1. /\ cmd'[c] = q /\ q.key = None /\ UNCHANGED <<file, vault>>
      /\ \A x : First(q, x) => x \in Starts \cup {"Reconcile"}
      /\ \A w \in Clients \cup {Server} : w # c => mem'[w] = mem[w]
      /\ mem'[c] \in {mem[c], file}
  BY DEF Enters
<1>2. \A d \in Clients \ {c} : Near(cmd'[d], cmd[d])
  BY DEF Enters
<1>3. \A d \in Clients \ {c} : /\ Brings(cmd'[d]) = Brings(cmd[d])
                               /\ \A x : First(cmd'[d], x) = First(cmd[d], x)
                               /\ cmd'[d].key = cmd[d].key /\ cmd'[d].clear = cmd[d].clear
  BY <1>2, NearOrdered DEF Near
<1>4. /\ ~First(cmd'[c], "CreateKey") /\ ~First(cmd'[c], "WriteKey")
      /\ \A x \in Bringing : ~First(cmd'[c], x)
  BY <1>1 DEF Starts, Bringing
<1>5. Sealed'
  <2> SUFFICES ASSUME ~raced' PROVE
        /\ file'.env.k \in Good'
        /\ \A w \in Clients \cup {Server} : mem'[w].env.k \in Good'
        /\ \A d \in Clients :
             /\ cmd'[d].key \in Good'
             /\ First(cmd'[d], "CreateKey") => key' = None
             /\ First(cmd'[d], "WriteKey") =>
                  /\ key' = "torn"
                  /\ \A e \in Clients \ {d} : /\ ~First(cmd'[e], "CreateKey")
                                              /\ ~First(cmd'[e], "WriteKey")
    BY DEF Sealed, At, First
  <2>1. ~raced /\ key' = key /\ Good' = Good /\ None \in Good
    BY <1>1 DEF vault, Good
  <2>2. /\ file.env.k \in Good
        /\ \A w \in Clients \cup {Server} : mem[w].env.k \in Good
        /\ \A d \in Clients :
             /\ cmd[d].key \in Good
             /\ First(cmd[d], "CreateKey") => key = None
             /\ First(cmd[d], "WriteKey") =>
                  /\ key = "torn"
                  /\ \A e \in Clients \ {d} : /\ ~First(cmd[e], "CreateKey")
                                              /\ ~First(cmd[e], "WriteKey")
    BY <2>1 DEF Sealed, At, First
  <2>3. file'.env.k \in Good' /\ \A w \in Clients \cup {Server} : mem'[w].env.k \in Good'
    BY <1>1, <2>1, <2>2
  <2>4. \A d \in Clients : cmd'[d].key \in Good'
    BY <1>1, <1>3, <2>1, <2>2
  <2>5. QED BY <1>3, <1>4, <2>1, <2>2, <2>3, <2>4
<1>6. Merging'
  <2> SUFFICES ASSUME NEW d \in Clients, Brings(cmd'[d]), NEW x \in Bringing, First(cmd'[d], x)
               PROVE  cmd'[d].clear = mem'[d].env.v
    BY DEF Merging, At, First, Brings
  <2>1. d # c
    BY <1>4
  <2>2. Brings(cmd[d]) /\ First(cmd[d], x) /\ cmd'[d].clear = cmd[d].clear
    BY <1>3, <2>1
  <2>3. cmd[d].clear = mem[d].env.v
    BY <2>2 DEF Merging, At, First
  <2>4. QED BY <1>1, <2>1, <2>2, <2>3
<1>7. QED BY <1>5, <1>6

LEMMA EntersHonest ==
  ASSUME Typed, Honest, NEW c \in Clients, NEW q, Enters(c, q)
  PROVE  Honest'
<1>1. /\ cmd'[c] = q /\ q.eff = {} /\ file' = file /\ told' = told /\ up' = up
      /\ \A w \in Clients \cup {Server} : w # c => mem'[w] = mem[w]
      /\ ~q.api => mem'[c] = file
      /\ fresh' \subseteq fresh \cup {c} /\ fresh \subseteq Clients \cup {Server}
  BY DEF Enters, Typed
<1>2. \A d \in Clients \ {c} : Near(cmd'[d], cmd[d]) /\ (cmd'[d] = Idle <=> cmd[d] = Idle)
  BY DEF Enters
<1>3. ASSUME NEW d \in Clients \ {c}
      PROVE  /\ Where(d)' = Where(d) /\ Where(d) # c /\ Where(d) \in Clients \cup {Server}
             /\ Pending(d)' = Pending(d) /\ cmd'[d].eff = cmd[d].eff
  <2>1. Near(cmd'[d], cmd[d])
    BY <1>2
  <2>2. Where(d)' = Where(d) /\ Where(d) # c /\ Where(d) \in Clients \cup {Server}
    BY <2>1, WhereType DEF Where, Near
  <2>3. mem'[Where(d)] = mem[Where(d)]
    BY <1>1, <2>2
  <2>4. Pending(d)' = Pending(d)
    BY <2>1, <2>2, <2>3 DEF Pending, S, At, Near
  <2>5. QED BY <2>1, <2>2, <2>4 DEF Near
<1>4. ASSUME NEW w \in Clients \cup {Server}, w # c, NEW x
      PROVE  Same(w, x)' = Same(w, x)
  BY <1>1, <1>4 DEF Same
<1>5. ASSUME NEW w \in Clients \cup {Server}, w # c
      PROVE  Alive(w)' = Alive(w)
  <2>1. CASE w = Server
    BY <1>1, <2>1 DEF Alive
  <2>2. CASE w # Server
    <3>1. w \in Clients \ {c}
      BY <1>5, <2>2
    <3>2. cmd'[w].api = cmd[w].api /\ (cmd'[w] = Idle <=> cmd[w] = Idle)
      BY <1>2, <3>1 DEF Near
    <3>3. QED BY <2>2, <3>1, <3>2 DEF Alive, Busy
  <2>3. QED BY <2>1, <2>2
<1>6. ASSUME Alive(c)', NEW x PROVE Same(c, x)'
  <2>1. ~q.api
    BY <1>1, <1>6, NamesAssumption DEF Alive
  <2>2. QED BY <1>1, <2>1 DEF Same
<1>7. ASSUME NEW x, Settled(x) PROVE Settled(x)'
  <2> SUFFICES ASSUME NEW w \in fresh', Alive(w)'
               PROVE  Same(w, x)' \/ (w # Server /\ x \in cmd'[w].eff /\ Pending(w)')
    BY DEF Settled
  <2>1. CASE w = c
    BY <1>6, <2>1
  <2>2. CASE w # c
    <3>1. w \in fresh /\ w \in Clients \cup {Server} /\ Alive(w)
      BY <1>1, <1>5, <2>2
    <3>2. Same(w, x) \/ (w # Server /\ x \in cmd[w].eff /\ Pending(w))
      BY <1>7, <3>1 DEF Settled
    <3>3. QED BY <1>3, <1>4, <2>2, <3>1, <3>2
  <2>3. QED BY <2>1, <2>2
<1>8. /\ \A t \in told : Value(file, t[1]) = t[2] /\ Settled(t[1])
      /\ \A d \in Clients : \A x \in cmd[d].eff :
           Pending(d) \/ (Same(Where(d), x) /\ Settled(x))
  BY DEF Honest
<1>9. \A t \in told' : Value(file', t[1]) = t[2] /\ Settled(t[1])'
  BY <1>1, <1>7, <1>8
<1>10. ASSUME NEW d \in Clients, NEW x \in cmd'[d].eff
       PROVE  Pending(d)' \/ (Same(Where(d), x)' /\ Settled(x)')
  <2>1. d # c
    BY <1>1, <1>10
  <2>2. x \in cmd[d].eff
    BY <1>3, <1>10, <2>1
  <2>3. Pending(d) \/ (Same(Where(d), x) /\ Settled(x))
    BY <1>8, <2>2
  <2>4. QED BY <1>3, <1>4, <1>7, <2>1, <2>3
<1>11. QED BY <1>9, <1>10 DEF Honest

LEMMA BeginMemories ==
  ASSUME Memories, NEW c \in Clients, CanBegin(c), NEW r \in Requests, Begin(c, r)
  PROVE  Memories'
<1>1. Typed /\ Programmed /\ Sealed /\ Merging /\ Honest
  BY DEF Memories
<1>2. Enters(c, Begun(r))
  BY <1>1, BeginEnters
<1>3. QED BY <1>1, <1>2, EntersProgrammed, EntersSealed, EntersHonest DEF Memories
-----------------------------------------------------------------------------
(* The server comes and goes.                                               *)

\* Every command ends or goes on as it was, but for what it changed.
Survives(d) == \/ cmd'[d] = Idle
               \/ /\ Alike(cmd'[d], cmd[d]) /\ cmd'[d].eff \subseteq cmd[d].eff
                  /\ cmd'[d] = Idle <=> cmd[d] = Idle

LEMMA SurvivesType ==
  ASSUME NEW d \in Clients, Survives(d)
  PROVE  /\ cmd'[d].eff \subseteq cmd[d].eff
         /\ cmd'[d].key \in {None, cmd[d].key}
         /\ \A x : First(cmd'[d], x) => First(cmd[d], x)
         /\ Brings(cmd'[d]) => Brings(cmd[d]) /\ cmd'[d].clear = cmd[d].clear
         /\ cmd[d] = Idle => cmd'[d] = Idle
<1>1. CASE cmd'[d] = Idle
  <2>1. Idle.key = None
    BY DEF Idle
  <2>2. QED BY <1>1, <2>1, IdleType, IdleOrdered
<1>2. CASE cmd'[d] # Idle
  BY <1>2, AlikeOrdered DEF Survives, Alike
<1>3. QED BY <1>1, <1>2

LEMMA SurviveProgrammed ==
  ASSUME Programmed, \A d \in Clients : Survives(d),
         \A d \in Clients : cmd'[d] # Idle /\ cmd'[d].api => up'
  PROVE  Programmed'
<1>1. ASSUME NEW d \in Clients
      PROVE  /\ Ordered(cmd'[d])
             /\ cmd'[d].op = "idle" <=> cmd'[d] = Idle
             /\ cmd'[d] # Idle /\ cmd'[d].alone => \A e \in Clients \ {d} : cmd'[e] = Idle
  <2>1. CASE cmd'[d] = Idle
    BY <2>1, IdleType, IdleOrdered
  <2>2. CASE cmd'[d] # Idle
    <3>1. Alike(cmd'[d], cmd[d]) /\ cmd[d] # Idle
      BY <2>2 DEF Survives
    <3>2. /\ Ordered(cmd[d]) /\ cmd[d].op # "idle"
          /\ cmd[d].alone => \A e \in Clients \ {d} : cmd[e] = Idle
      BY <3>1 DEF Programmed
    <3>3. Ordered(cmd'[d]) /\ cmd'[d].op = cmd[d].op /\ cmd'[d].alone = cmd[d].alone
      BY <3>1, <3>2, AlikeOrdered DEF Alike
    <3>4. QED BY <2>2, <3>2, <3>3, SurvivesType
  <2>3. QED BY <2>1, <2>2
<1>2. QED BY <1>1 DEF Programmed

LEMMA SurviveSealed ==
  ASSUME Sealed, Merging, \A d \in Clients : Survives(d), UNCHANGED vault,
         file'.env.k = file.env.k,
         \A w \in Clients \cup {Server} : mem'[w].env.k \in {file.env.k, mem[w].env.k},
         \A d \in Clients : mem'[d] = mem[d]
  PROVE  Sealed' /\ Merging'
<1>1. \A d \in Clients : /\ cmd'[d].key \in {None, cmd[d].key}
                         /\ \A x : First(cmd'[d], x) => First(cmd[d], x)
                         /\ Brings(cmd'[d]) => Brings(cmd[d]) /\ cmd'[d].clear = cmd[d].clear
  BY SurvivesType
<1>2. Sealed'
  <2> SUFFICES ASSUME ~raced' PROVE
        /\ file'.env.k \in Good'
        /\ \A w \in Clients \cup {Server} : mem'[w].env.k \in Good'
        /\ \A d \in Clients :
             /\ cmd'[d].key \in Good'
             /\ First(cmd'[d], "CreateKey") => key' = None
             /\ First(cmd'[d], "WriteKey") =>
                  /\ key' = "torn"
                  /\ \A e \in Clients \ {d} : /\ ~First(cmd'[e], "CreateKey")
                                              /\ ~First(cmd'[e], "WriteKey")
    BY DEF Sealed, At, First
  <2>1. ~raced /\ key' = key /\ Good' = Good /\ None \in Good
    BY DEF vault, Good
  <2>2. /\ file.env.k \in Good
        /\ \A w \in Clients \cup {Server} : mem[w].env.k \in Good
        /\ \A d \in Clients :
             /\ cmd[d].key \in Good
             /\ First(cmd[d], "CreateKey") => key = None
             /\ First(cmd[d], "WriteKey") =>
                  /\ key = "torn"
                  /\ \A e \in Clients \ {d} : /\ ~First(cmd[e], "CreateKey")
                                              /\ ~First(cmd[e], "WriteKey")
    BY <2>1 DEF Sealed, At, First
  <2>3. file'.env.k \in Good' /\ \A w \in Clients \cup {Server} : mem'[w].env.k \in Good'
    BY <2>1, <2>2
  <2>4. \A d \in Clients : cmd'[d].key \in Good'
    BY <1>1, <2>1, <2>2
  <2>5. QED BY <1>1, <2>1, <2>2, <2>3, <2>4
<1>3. Merging'
  <2> SUFFICES ASSUME NEW d \in Clients, Brings(cmd'[d]), NEW x \in Bringing, First(cmd'[d], x)
               PROVE  cmd'[d].clear = mem'[d].env.v
    BY DEF Merging, At, First, Brings
  <2>1. Brings(cmd[d]) /\ First(cmd[d], x) /\ cmd'[d].clear = cmd[d].clear
    BY <1>1
  <2>2. cmd[d].clear = mem[d].env.v
    BY <2>1 DEF Merging, At, First
  <2>3. QED BY <2>1, <2>2
<1>4. QED BY <1>2, <1>3

\* What was confirmed of x, with the same file or another that says the same of x.
LEMMA SurviveSettled ==
  ASSUME NEW x, Settled(x), \A d \in Clients : Survives(d),
         fresh \subseteq Clients \cup {Server},
         fresh' \subseteq fresh \cup {Server}, \A d \in Clients : mem'[d] = mem[d],
         \A d \in Clients : d \in fresh' /\ x \in cmd[d].eff /\ cmd'[d] # Idle => x \in cmd'[d].eff,
         Value(file', x) = Value(file, x),
         Alive(Server)' /\ Server \in fresh' => Same(Server, x)'
  PROVE  Settled(x)'
<1> SUFFICES ASSUME NEW w \in fresh', Alive(w)'
             PROVE  Same(w, x)' \/ (w # Server /\ x \in cmd'[w].eff /\ Pending(w)')
  BY DEF Settled
<1>1. CASE w # Server
  <2>1. w \in Clients /\ w \in fresh /\ cmd'[w] # Idle /\ ~cmd'[w].api
    BY <1>1 DEF Alive, Busy
  <2>2. Alike(cmd'[w], cmd[w]) /\ cmd[w] # Idle /\ ~cmd[w].api
    BY <2>1 DEF Survives, Alike
  <2>3. Alive(w)
    BY <1>1, <2>1, <2>2 DEF Alive, Busy
  <2>4. Same(w, x) \/ (x \in cmd[w].eff /\ Pending(w))
    BY <2>1, <2>3 DEF Settled
  <2>5. Same(w, x)' = Same(w, x)
    BY <2>1 DEF Same
  <2>6. Pending(w) => Pending(w)'
    <3>1. Where(w) = w /\ mem'[w] = mem[w]
      BY <2>1, <2>2 DEF Where
    <3>2. QED BY <2>1, <2>2, <3>1, PendingSame
  <2>7. QED BY <1>1, <2>1, <2>4, <2>5, <2>6
<1>2. QED BY <1>1

LEMMA ServerStartsMemories ==
  ASSUME Memories, ServerStarts
  PROVE  Memories'
<1> DEFINE s == IF Drifted(file) THEN [file EXCEPT !.inst.st = Seen] ELSE file
<1>1. /\ Typed /\ Programmed /\ Sealed /\ Merging /\ Honest
  BY DEF Memories
<1>2. /\ ~up /\ up' = TRUE /\ mem' = [mem EXCEPT ![Server] = s] /\ file' = s
      /\ IF s = file THEN fresh' = fresh \cup {Server} /\ UNCHANGED <<told, cmd>>
         ELSE /\ fresh' = {Server} /\ told' = Except({"power"})
              /\ cmd' = [c \in Clients |-> [cmd[c] EXCEPT !.eff = @ \ {"power"}]]
      /\ UNCHANGED <<scope, begun, vault>>
  BY DEF ServerStarts
<1>3. /\ s \in Stores /\ s.env = file.env
      /\ \A x \in Items \ {"power"} : Value(s, x) = Value(file, x)
  <2>1. file \in Stores /\ Seen \in {"running", "starting", "stopping", "stopped"}
    BY <1>1, SeenType DEF Typed
  <2>2. QED BY <2>1, WithState
<1> HIDE DEF s
<1>4. /\ mem' \in [Clients \cup {Server} -> Stores] /\ mem'[Server] = s
      /\ \A d \in Clients : mem'[d] = mem[d]
  BY <1>1, <1>2, <1>3, NamesAssumption DEF Typed
<1>5. \A d \in Clients : cmd[d] \in Command /\ (cmd[d].op = "idle" <=> cmd[d] = Idle)
  BY <1>1 DEF Typed, Programmed
<1>6. ASSUME s # file, NEW d \in Clients
      PROVE  /\ cmd'[d] \in Command /\ Alike(cmd'[d], cmd[d])
             /\ cmd'[d].eff = cmd[d].eff \ {"power"}
             /\ cmd'[d] = Idle <=> cmd[d] = Idle
  <2> DEFINE E == cmd[d].eff \ {"power"}
  <2>1. cmd'[d] = [cmd[d] EXCEPT !.eff = E]
    BY <1>2, <1>5, <1>6 DEF Command
  <2>2. E \in SUBSET cmd[d].eff
    OBVIOUS
  <2> HIDE DEF E
  <2>3. /\ cmd'[d] \in Command /\ Alike(cmd'[d], cmd[d]) /\ cmd'[d].eff = E
        /\ cmd'[d] = Idle <=> cmd[d] = Idle
    BY <1>5, <2>1, <2>2, WithLessEff
  <2>4. QED BY <2>3 DEF E
<1>7. cmd' \in [Clients -> Command]
  <2>1. CASE s = file
    BY <1>1, <1>2, <2>1 DEF Typed
  <2>2. CASE s # file
    BY <1>2, <1>6, <2>2
  <2>3. QED BY <2>1, <2>2
<1>8. \A d \in Clients : Alike(cmd'[d], cmd[d]) /\ cmd'[d].eff \subseteq cmd[d].eff
                         /\ (cmd'[d] = Idle <=> cmd[d] = Idle)
  <2>1. CASE s = file
    BY <1>2, <2>1 DEF Alike
  <2>2. CASE s # file
    BY <1>6, <2>2
  <2>3. QED BY <2>1, <2>2
<1>9. \A d \in Clients : Survives(d)
  BY <1>8 DEF Survives
<1>10. Programmed'
  BY <1>1, <1>2, <1>9, SurviveProgrammed
<1>11. Sealed' /\ Merging'
  <2>1. \A w \in Clients \cup {Server} : mem'[w].env.k \in {file.env.k, mem[w].env.k}
    BY <1>3, <1>4
  <2>2. QED BY <1>1, <1>2, <1>3, <1>4, <1>9, <2>1, SurviveSealed
<1>12. Typed'
  <2>1. fresh' \subseteq Clients \cup {Server} /\ \A t \in told' : t[1] \in Items
    BY <1>1, <1>2 DEF Typed, Except
  <2>2. QED BY <1>1, <1>2, <1>3, <1>4, <1>7, <2>1 DEF Typed, vault
<1>13. \A d \in Clients : cmd[d] = Idle \/ ~cmd[d].api
  BY <1>1, <1>2 DEF Programmed
<1>14. ASSUME NEW d \in Clients, cmd[d] # Idle, NEW x \in Items, Value(s, x) = Value(file, x)
       PROVE  /\ Where(d) = d /\ Where(d)' = d /\ Same(d, x)' = Same(d, x)
              /\ Pending(d) => Pending(d)'
  <2>1. Alike(cmd'[d], cmd[d]) /\ Where(d) = d
    BY <1>8, <1>13, <1>14 DEF Where
  <2>2. mem'[Where(d)] = mem[Where(d)]
    BY <1>4, <2>1
  <2>3. Where(d)' = d /\ (Pending(d) => Pending(d)')
    BY <2>1, <2>2, PendingSame
  <2>4. Same(d, x)' = Same(d, x)
    BY <1>2, <1>4, <1>14 DEF Same
  <2>5. QED BY <2>1, <2>3, <2>4
<1>15. Same(Server, "power")' /\ \A x : Same(Server, x)'
  BY <1>2, <1>4 DEF Same
<1>16. ASSUME NEW x \in Items, Value(s, x) = Value(file, x), Settled(x)
       PROVE  Settled(x)'
  <2>1. fresh \subseteq Clients \cup {Server} /\ fresh' \subseteq fresh \cup {Server}
    BY <1>1, <1>2 DEF Typed
  <2>2. \A d \in Clients : d \in fresh' /\ x \in cmd[d].eff /\ cmd'[d] # Idle => x \in cmd'[d].eff
    BY <1>2, NamesAssumption
  <2>3. Value(file', x) = Value(file, x)
    BY <1>2, <1>16
  <2>4. QED BY <1>4, <1>9, <1>15, <1>16, <2>1, <2>2, <2>3, SurviveSettled
<1>17. /\ \A t \in told : Value(file, t[1]) = t[2] /\ Settled(t[1])
       /\ \A d \in Clients : \A x \in cmd[d].eff :
            Pending(d) \/ (Same(Where(d), x) /\ Settled(x))
  BY <1>1 DEF Honest
<1>18. ASSUME NEW t \in told' PROVE Value(file', t[1]) = t[2] /\ Settled(t[1])'
  <2>1. t \in told /\ t[1] \in Items /\ Value(s, t[1]) = Value(file, t[1])
    BY <1>1, <1>2, <1>3, <1>18 DEF Typed, Except
  <2>2. QED BY <1>2, <1>16, <1>17, <2>1
<1>19. ASSUME NEW d \in Clients, NEW x \in cmd'[d].eff
       PROVE  Pending(d)' \/ (Same(Where(d), x)' /\ Settled(x)')
  <2>1. x \in cmd[d].eff /\ x \in Items
    BY <1>5, <1>8, <1>19 DEF Command
  <2>2. Value(s, x) = Value(file, x)
    BY <1>3, <1>6, <1>19, <2>1
  <2>3. cmd[d] # Idle
    BY <2>1, IdleType
  <2>4. Pending(d) \/ (Same(Where(d), x) /\ Settled(x))
    BY <1>17, <2>1
  <2>5. QED BY <1>14, <1>16, <2>1, <2>2, <2>3, <2>4
<1>20. Honest'
  BY <1>18, <1>19 DEF Honest
<1>21. QED BY <1>10, <1>11, <1>12, <1>20 DEF Memories

LEMMA ServerStopsMemories ==
  ASSUME Memories, ServerStops
  PROVE  Memories'
<1>1. /\ Typed /\ Programmed /\ Sealed /\ Merging /\ Honest
  BY DEF Memories
<1>2. /\ up /\ up' = FALSE /\ fresh' = fresh \ {Server}
      /\ cmd' = [c \in Clients |-> IF cmd[c].api THEN Idle ELSE cmd[c]]
      /\ file' = file /\ mem' = mem /\ told' = told
      /\ UNCHANGED <<scope, begun, file, mem, told, vault>>
  BY DEF ServerStops
<1>3. /\ cmd' \in [Clients -> Command]
      /\ \A d \in Clients : cmd'[d] = IF cmd[d].api THEN Idle ELSE cmd[d]
  BY <1>1, <1>2, IdleType DEF Typed
<1>4. \A d \in Clients : Survives(d)
  BY <1>3 DEF Survives, Alike
<1>5. Programmed'
  <2>1. \A d \in Clients : cmd'[d] # Idle /\ cmd'[d].api => up'
    BY <1>3
  <2>2. QED BY <1>1, <1>4, <2>1, SurviveProgrammed
<1>6. Sealed' /\ Merging'
  BY <1>1, <1>2, <1>4, SurviveSealed
<1>7. Typed'
  BY <1>1, <1>2, <1>3 DEF Typed, vault
<1>8. ASSUME NEW x, Settled(x) PROVE Settled(x)'
  <2>1. /\ fresh \subseteq Clients \cup {Server} /\ fresh' \subseteq fresh \cup {Server}
        /\ Server \notin fresh'
    BY <1>1, <1>2 DEF Typed
  <2>2. \A d \in Clients : d \in fresh' /\ x \in cmd[d].eff /\ cmd'[d] # Idle => x \in cmd'[d].eff
    BY <1>3
  <2>3. QED BY <1>2, <1>4, <1>8, <2>1, <2>2, SurviveSettled
<1>9. ASSUME NEW d \in Clients, ~cmd[d].api
      PROVE  /\ Where(d)' = Where(d) /\ \A x : Same(Where(d), x)' = Same(Where(d), x)
             /\ Pending(d) => Pending(d)'
  <2>1. Alike(cmd'[d], cmd[d])
    BY <1>3, <1>9 DEF Alike
  <2>2. mem'[Where(d)] = mem[Where(d)]
    BY <1>2
  <2>3. Where(d)' = Where(d) /\ (Pending(d) => Pending(d)')
    BY <2>1, <2>2, PendingSame
  <2>4. QED BY <1>2, <2>3 DEF Same
<1>10. /\ \A t \in told : Value(file, t[1]) = t[2] /\ Settled(t[1])
       /\ \A d \in Clients : \A x \in cmd[d].eff :
            Pending(d) \/ (Same(Where(d), x) /\ Settled(x))
  BY <1>1 DEF Honest
<1>11. \A t \in told' : Value(file', t[1]) = t[2] /\ Settled(t[1])'
  BY <1>2, <1>8, <1>10
<1>12. ASSUME NEW d \in Clients, NEW x \in cmd'[d].eff
       PROVE  Pending(d)' \/ (Same(Where(d), x)' /\ Settled(x)')
  <2>1. ~cmd[d].api /\ x \in cmd[d].eff
    BY <1>3, <1>12, IdleType
  <2>2. QED BY <1>8, <1>9, <1>10, <2>1
<1>13. Honest'
  BY <1>11, <1>12 DEF Honest
<1>14. QED BY <1>5, <1>6, <1>7, <1>13 DEF Memories

\* Nothing but the VM changes.
LEMMA QuietMemories ==
  ASSUME Memories, UNCHANGED <<world, store, vault, cmd>>
  PROVE  Memories'
<1>1. /\ UNCHANGED <<scope, begun, up>> /\ file' = file /\ mem' = mem /\ fresh' = fresh
      /\ told' = told /\ key' = key /\ keys' = keys /\ raced' = raced /\ cmd' = cmd /\ up' = up
  BY DEF world, store, vault
<1>2. Typed' /\ Programmed' /\ Merging'
  BY <1>1 DEF Memories, Typed, Programmed, Merging, At
<1>3. Sealed'
  BY <1>1 DEF Memories, Sealed, At, Good
<1>4. Honest'
  <2>1. \A c : Pending(c)' = Pending(c) /\ Where(c)' = Where(c)
    BY <1>1 DEF Pending, S, Where, At
  <2>2. \A w, x : Same(w, x)' = Same(w, x)
    BY <1>1 DEF Same
  <2>3. \A x : Settled(x)' = Settled(x)
    BY <1>1, <2>1, <2>2 DEF Settled, Alive, Busy
  <2>4. QED BY <1>1, <2>1, <2>2, <2>3 DEF Memories, Honest
<1>5. QED BY <1>2, <1>3, <1>4 DEF Memories

\* Every step keeps the memories as they have to be.
LEMMA NextMemories ==
  ASSUME Memories, [Next]_vars
  PROVE  Memories'
<1>1. CASE UNCHANGED vars
  BY <1>1, QuietMemories DEF vars, world, store, vault
<1>2. ASSUME NEW c \in Clients, CanBegin(c), NEW r \in Requests, Begin(c, r) PROVE Memories'
  BY <1>2, BeginMemories
<1>3. ASSUME NEW c \in Clients,
             \/ Project(c) \/ Resize(c) \/ Environment(c) \/ Application(c)
             \/ Confirms(c) \/ Killed(c)
      PROVE  Memories'
  BY <1>3, CallsMemories, ConfirmsMemories, KilledMemories
<1>4. CASE ServerStarts \/ ServerStops
  BY <1>4, ServerStartsMemories, ServerStopsMemories
<1>5. CASE PowersOff
  BY <1>5, QuietMemories DEF PowersOff
<1>6. QED BY <1>1, <1>2, <1>3, <1>4, <1>5 DEF Next
-----------------------------------------------------------------------------
(* The VM.                                                                  *)

Delivers(v) == \A a \in Apps : LET r == v.run[a] IN
                  /\ r.k = None
                  /\ r # Ended /\ r.how = "direct" => r.v = r.due
Sound(v)    == v \in VMs /\ (v.st = "none" => v.disk = 0) /\ Delivers(v)

\* The step of ResizedOff.
Grows == vm.disk # 0 /\ vm'.disk \notin {0, vm.disk} =>
           /\ vm'.disk > vm.disk
           /\ (vm.st = "off" \/ \E c \in Clients : ~cmd[c].alone)

LEMMA EndedType ==
  /\ Ended \in [v : Values \cup {None, "none"}, k : Keys \cup {None},
                due : Values \cup {None}, how : {"direct", "api", "kept"}]
  /\ Ended.k = None
BY DEF Ended

LEMMA NoVMSound == /\ NoVM \in VMs /\ NoVM.st = "none" /\ NoVM.disk = 0
                   /\ \A a \in Apps : NoVM.run[a] = Ended
BY EndedType DEF NoVM, VMs, MaxDisk

\* A new VM, or none.
LEMMA NewVM ==
  ASSUME NEW n \in 1..2, NEW st \in {"on", "off"}, NEW d \in 0..MaxDisk
  PROVE  /\ Sound(NoVM)
         /\ Sound([NoVM EXCEPT !.st = st, !.cpu = n, !.disk = d])
         /\ Sound([NoVM EXCEPT !.st = st, !.disk = d])
<1> DEFINE u == [NoVM EXCEPT !.st = st, !.cpu = n, !.disk = d]
           w == [NoVM EXCEPT !.st = st, !.disk = d]
<1>1. Sound(NoVM)
  BY NoVMSound DEF Sound, Delivers, Ended
<1>2. u \in VMs /\ u.st = st /\ u.run = NoVM.run
  BY NoVMSound DEF VMs
<1>3. w \in VMs /\ w.st = st /\ w.run = NoVM.run
  BY NoVMSound DEF VMs
<1> HIDE DEF u, w
<1>4. Sound(u) /\ Sound(w)
  BY <1>1, <1>2, <1>3 DEF Sound, Delivers
<1>5. QED BY <1>1, <1>4 DEF u, w

\* A VM that is off.
LEMMA OffSound ==
  ASSUME Sound(vm)
  PROVE  Sound(Off) /\ Off.disk = vm.disk /\ Off.st = "off"
<1> DEFINE run == [a \in Apps |-> Ended]
           u == [vm EXCEPT !.st = "off", !.run = run]
<1>1. run \in [Apps -> [v : Values \cup {None, "none"}, k : Keys \cup {None},
                        due : Values \cup {None}, how : {"direct", "api", "kept"}]]
      /\ \A a \in Apps : run[a] = Ended
  BY EndedType
<1>2. vm \in VMs
  BY DEF Sound
<1> HIDE DEF run
<1>3. u \in VMs /\ u.st = "off" /\ u.disk = vm.disk /\ u.run = run
  BY <1>1, <1>2 DEF VMs
<1>4. Off = u
  BY DEF Off, run
<1> HIDE DEF u
<1>5. Sound(u)
  BY <1>1, <1>3, EndedType DEF Sound, Delivers
<1>6. QED BY <1>3, <1>4, <1>5

\* A VM with its apps.
LEMMA WithSt ==
  ASSUME Sound(vm), NEW st \in {"on", "off"}, NEW n \in 1..2, NEW d \in 0..MaxDisk
  PROVE  /\ LET u == [vm EXCEPT !.st = st] IN Sound(u) /\ u.disk = vm.disk
         /\ LET u == [vm EXCEPT !.cpu = n, !.st = st] IN Sound(u) /\ u.disk = vm.disk /\ u.st = st
         /\ LET u == [vm EXCEPT !.disk = d] IN vm.st # "none" => Sound(u) /\ u.disk = d
<1> DEFINE u == [vm EXCEPT !.st = st]
           w == [vm EXCEPT !.cpu = n, !.st = st]
           x == [vm EXCEPT !.disk = d]
<1>1. vm \in VMs
  BY DEF Sound
<1>2. u \in VMs /\ u.st = st /\ u.run = vm.run /\ u.disk = vm.disk
  BY <1>1 DEF VMs
<1>3. w \in VMs /\ w.st = st /\ w.run = vm.run /\ w.disk = vm.disk
  BY <1>1 DEF VMs
<1>4. x \in VMs /\ x.st = vm.st /\ x.run = vm.run /\ x.disk = d
  BY <1>1 DEF VMs
<1> HIDE DEF u, w, x
<1>5. Sound(u) /\ Sound(w) /\ (vm.st # "none" => Sound(x))
  BY <1>2, <1>3, <1>4 DEF Sound, Delivers
<1>6. QED BY <1>2, <1>3, <1>4, <1>5 DEF u, w, x

\* One app started or ended.
LEMMA WithRun ==
  ASSUME Sound(vm), NEW a \in Apps,
         NEW r \in [v : Values \cup {None, "none"}, k : Keys \cup {None},
                    due : Values \cup {None}, how : {"direct", "api", "kept"}],
         r.k = None, r # Ended /\ r.how = "direct" => r.v = r.due
  PROVE  LET u == [vm EXCEPT !.run[a] = r] IN Sound(u) /\ u.disk = vm.disk
<1> DEFINE u == [vm EXCEPT !.run[a] = r]
           run == [vm.run EXCEPT ![a] = r]
<1>1. vm \in VMs
  BY DEF Sound
<1>2. run \in [Apps -> [v : Values \cup {None, "none"}, k : Keys \cup {None},
                        due : Values \cup {None}, how : {"direct", "api", "kept"}]]
      /\ \A b \in Apps : run[b] = IF b = a THEN r ELSE vm.run[b]
  BY <1>1 DEF VMs
<1>3. u = [vm EXCEPT !.run = run]
  BY <1>1 DEF VMs
<1> HIDE DEF run
<1>4. u \in VMs /\ u.st = vm.st /\ u.disk = vm.disk /\ u.run = run
  BY <1>1, <1>2, <1>3 DEF VMs
<1> HIDE DEF u
<1>5. Sound(u)
  BY <1>2, <1>4 DEF Sound, Delivers
<1>6. QED BY <1>4, <1>5 DEF u

LEMMA SameVM ==
  ASSUME Sound(vm), vm' = vm
  PROVE  Sound(vm') /\ Grows
BY DEF Grows

\* An app of the VM ends.
LEMMA EndedApp ==
  ASSUME Typed, Programmed, Sound(vm), NEW c \in Clients, StopApp(c) \/ RemoveApp(c)
  PROVE  Sound(vm') /\ Grows
<1>1. cmd[c].app \in Apps
  BY CalledApp DEF StopApp, RemoveApp, AppCalls
<1>2. vm' = vm \/ vm' = [vm EXCEPT !.run[cmd[c].app] = Ended]
  BY DEF StopApp, RemoveApp
<1> DEFINE u == [vm EXCEPT !.run[cmd[c].app] = Ended]
<1>3. Sound(u) /\ u.disk = vm.disk
  BY <1>1, EndedType, WithRun
<1> HIDE DEF u
<1>4. vm' = vm \/ vm' = u
  BY <1>2 DEF u
<1>5. QED BY <1>3, <1>4, SameVM DEF Grows

\* An app runs with what was merged for it.
LEMMA DeployedApp ==
  ASSUME Typed, Programmed, Merging, Sound(vm), NEW c \in Clients, DeployApp(c)
  PROVE  Sound(vm') /\ Grows
<1> DEFINE x == App(c)
           own == [v |-> x.v, k |-> x.k]
           env == IF cmd[c].api THEN own ELSE Merged(c, own)
           r == [v |-> env.v, k |-> env.k,
                 due |-> IF x.mine THEN x.v ELSE S(c).env.v,
                 how |-> IF cmd[c].api THEN "api"
                         ELSE IF own.v # None /\ ~x.mine THEN "kept" ELSE "direct"]
<1>1. At(c, "DeployApp")
  BY DEF DeployApp
<1>2. /\ cmd[c].app \in Apps /\ x \in AppDefs
      /\ cmd[c] \in Command /\ MayCall(cmd[c], "DeployApp") /\ S(c) \in Stores
  BY <1>1, CalledApp, Called, OwnStore DEF AppCalls
<1>3. \/ vm' = vm
      \/ x # NoApp /\ vm' = [vm EXCEPT !.run[cmd[c].app] = r]
  BY DEF DeployApp
<1>4. CASE x # NoApp
  <2>1. x.v \in Values \cup {None} /\ x.k = None /\ x.mine \in BOOLEAN /\ (x.mine => x.v # None)
    BY <1>2, <1>4 DEF AppDefs
  <2>2. cmd[c].clear \in Values \cup {None} /\ S(c).env.v \in Values \cup {None}
    BY <1>2 DEF Command, Stores, Store, EnvValues
  <2>3. ~cmd[c].api => cmd[c].clear = S(c).env.v
    <3> SUFFICES ASSUME ~cmd[c].api PROVE cmd[c].clear = mem[c].env.v
      BY DEF S, Where
    <3>1. Brings(cmd[c])
      BY <1>2 DEF MayCall, Brings
    <3>2. QED BY <1>1, <3>1 DEF Merging, Bringing
  <2>4. /\ env.k = None
        /\ env.v = IF x.v = None /\ ~cmd[c].api THEN cmd[c].clear ELSE x.v
    BY <2>1 DEF Merged, Plain
  <2> HIDE DEF x, env
  <2>5. /\ r \in [v : Values \cup {None, "none"}, k : Keys \cup {None},
                  due : Values \cup {None}, how : {"direct", "api", "kept"}]
        /\ r.k = None
    BY <2>1, <2>2, <2>4
  <2>6. r.how = "direct" => r.v = r.due
    BY <2>1, <2>3, <2>4
  <2> HIDE DEF r
  <2>7. LET u == [vm EXCEPT !.run[cmd[c].app] = r] IN Sound(u) /\ u.disk = vm.disk
    BY <1>2, <2>5, <2>6, WithRun
  <2>8. QED BY <1>3, <2>7, SameVM DEF Grows
<1>5. CASE x = NoApp
  BY <1>3, <1>5, SameVM
<1>6. QED BY <1>4, <1>5

\* The domain is created, destroyed, stopped, started and defined.
LEMMA CreatedVM ==
  ASSUME Typed, Sound(vm), NEW c \in Clients, CreateInstance(c) \/ DestroyInstance(c)
  PROVE  Sound(vm') /\ Grows
<1> DEFINE u == [NoVM EXCEPT !.st = "on", !.cpu = S(c).cpu, !.disk = DefaultDisk]
<1>1. S(c).cpu \in 1..2 /\ DefaultDisk \in 0..MaxDisk
  BY OwnStore DEF Stores, Store, DefaultDisk, MaxDisk
<1>2. Sound(u) /\ Sound(NoVM)
  BY <1>1, NewVM
<1> HIDE DEF u
<1>3. \/ vm' = vm \/ vm' = NoVM
      \/ vm.st = "none" /\ vm' = u
  BY DEF CreateInstance, DestroyInstance, u
<1>4. vm.st = "none" => vm.disk = 0
  BY DEF Sound
<1>5. QED BY <1>2, <1>3, <1>4, NoVMSound, SameVM DEF Grows

LEMMA PoweredVM ==
  ASSUME Typed, Sound(vm), NEW c \in Clients,
         StopInstance(c) \/ StartInstance(c) \/ Define(c) \/ PowersOff
  PROVE  Sound(vm') /\ Grows
<1> DEFINE n == S(c).cpu
           st == IF vm.st = "none" THEN "off" ELSE vm.st
           u == [vm EXCEPT !.st = "on"]
           w == [vm EXCEPT !.cpu = n, !.st = st]
<1>1. n \in 1..2 /\ vm \in VMs
  BY OwnStore DEF Stores, Store, Sound
<1>2. st \in {"on", "off"} /\ 0 \in 0..MaxDisk
  BY <1>1 DEF VMs, MaxDisk
<1>3. vm' \in {vm, Off, u, w}
  BY <1>1 DEF StopInstance, StartInstance, Define, PowersOff, VMs
<1> HIDE DEF n, st
<1>4. Sound(u) /\ u.disk = vm.disk /\ Sound(w) /\ w.disk = vm.disk
  BY <1>1, <1>2, WithSt
<1> HIDE DEF u, w
<1>5. QED BY <1>3, <1>4, OffSound DEF Grows

\* The disk grows, and only while the VM is off or several commands run.
LEMMA ResizedVM ==
  ASSUME Typed, Machine, Sound(vm), NEW c \in Clients, ResizeDisk(c)
  PROVE  Sound(vm') /\ Grows
<1> DEFINE size == IF S(c).disk = 0 THEN DefaultDisk ELSE S(c).disk
           u == [vm EXCEPT !.disk = size]
<1>1. size \in 0..MaxDisk
  BY OwnStore DEF Stores, Store, DefaultDisk, MaxDisk
<1>2. \/ vm' = vm
      \/ vm.disk # 0 /\ size >= vm.disk /\ vm' = u
  BY DEF ResizeDisk
<1>3. vm.disk # 0 => vm.st # "none"
  BY DEF Sound
<1>4. vm.st = "off" \/ ~cmd[c].alone
  BY DEF Machine, ResizeDisk
<1>5. vm.disk \in 0..MaxDisk
  BY DEF Sound, VMs
<1> HIDE DEF size
<1>6. vm.disk # 0 => Sound(u) /\ u.disk = size
  BY <1>1, <1>3, WithSt
<1> HIDE DEF u
<1>7. CASE vm' = vm
  BY <1>7, SameVM
<1>8. CASE vm.disk # 0 /\ size >= vm.disk /\ vm' = u
  <2>1. Sound(vm') /\ vm'.disk = size
    BY <1>6, <1>8
  <2>2. size # vm.disk => size > vm.disk
    BY <1>1, <1>5, <1>8 DEF MaxDisk
  <2>3. QED BY <1>4, <2>1, <2>2 DEF Grows
<1>9. QED BY <1>2, <1>7, <1>8

LEMMA CallVM ==
  ASSUME Typed, Programmed, Merging, Machine, Sound(vm), NEW c \in Clients,
         Project(c) \/ Resize(c) \/ Environment(c) \/ Application(c)
  PROVE  Sound(vm') /\ Grows
<1>1. CASE Project(c)
  <2>1. \/ vm' = vm
        \/ CreateInstance(c) \/ DestroyInstance(c) \/ StopInstance(c) \/ StartInstance(c)
    BY <1>1 DEF Project, Reconcile, CannotReconcile, Show, FindProject, FindOrCreate, Find,
                CreateProject, TakeBack, SetInstance, UpdateProject, FindToDelete,
                DeleteInstance, DeleteProject, UpdateStopping, Poll, UpdateInstance
  <2>2. QED BY <2>1, SameVM, CreatedVM, PoweredVM
<1>2. CASE Resize(c) \/ Environment(c)
  <2>1. vm' = vm \/ Define(c) \/ ResizeDisk(c)
    BY <1>2 DEF Resize, SetSize, CheckOff, Environment, ReadKey, CreateKey, WriteKey, SetEnv,
                DeleteEnv, Decrypt
  <2>2. QED BY <2>1, SameVM, PoweredVM, ResizedVM
<1>3. CASE Application(c)
  <2>1. vm' = vm \/ DeployApp(c) \/ StopApp(c) \/ RemoveApp(c)
    BY <1>3 DEF Application, GetApp, CheckApp, SaveApp, SetApp, DeleteApp, Build, LastApp, NextApp
  <2>2. QED BY <2>1, SameVM, EndedApp, DeployedApp
<1>4. QED BY <1>1, <1>2, <1>3

\* A command that comes to resize has seen that the VM is off.
SeenOff(c) == cmd[c].alone /\ (At(c, "Define") \/ At(c, "ResizeDisk"))

LEMMA OnlyThere ==
  ASSUME NEW c \in Clients, Project(c) \/ Resize(c) \/ Environment(c) \/ Application(c)
  PROVE  /\ At(c, "CheckOff") => CheckOff(c)
         /\ At(c, "Define") => Define(c)
<1> DEFINE No == ~At(c, "CheckOff") /\ ~At(c, "Define")
<1>1. CASE Project(c)
  <2>1. No
    BY <1>1 DEF At, Project, Reconcile, CannotReconcile, Show, FindProject, FindOrCreate, Find,
                CreateProject, CreateInstance, TakeBack, SetInstance, UpdateProject, FindToDelete,
                DestroyInstance, DeleteInstance, DeleteProject, StopInstance, UpdateStopping, Poll,
                StartInstance, UpdateInstance
  <2>2. QED BY <2>1
<1>2. CASE Resize(c)
  <2>1. CheckOff(c) => ~At(c, "Define")
    BY DEF CheckOff, At
  <2>2. Define(c) => ~At(c, "CheckOff")
    BY DEF Define, At
  <2>3. SetSize(c) \/ ResizeDisk(c) => No
    BY DEF SetSize, ResizeDisk, At
  <2>4. QED BY <1>2, <2>1, <2>2, <2>3 DEF Resize
<1>3. CASE Environment(c)
  <2>1. No
    BY <1>3 DEF At, Environment, ReadKey, CreateKey, WriteKey, SetEnv, DeleteEnv, Decrypt
  <2>2. QED BY <2>1
<1>4. CASE Application(c)
  <2>1. No
    BY <1>4 DEF At, Application, GetApp, CheckApp, SaveApp, SetApp, DeployApp, StopApp, RemoveApp,
                DeleteApp, Build, LastApp, NextApp
  <2>2. QED BY <2>1
<1>5. QED BY <1>1, <1>2, <1>3, <1>4

LEMMA CallOff ==
  ASSUME Typed, Programmed, Merging, Machine, NEW c \in Clients,
         Project(c) \/ Resize(c) \/ Environment(c) \/ Application(c),
         NEW d \in Clients, SeenOff(d)'
  PROVE  vm'.st = "off"
<1>1. Step(c) /\ cmd[c] # Idle
  BY ProjectStep, ResizeStep, EnvironmentStep, ApplicationStep DEF Step
<1>2. PICK r \in Command, E \in SUBSET Items, env \in EnvValues : Effect(c, r, E, env)
  BY <1>1, StepEffect
<1>3. Follows(c, r, env) /\ Moves(c, r, E)
  BY <1>2 DEF Effect
<1>4. /\ cmd'[d].alone /\ (First(cmd'[d], "Define") \/ First(cmd'[d], "ResizeDisk"))
  BY DEF SeenOff, At, First
<1>5. CASE d # c
  <2>1. Alike(cmd'[d], cmd[d])
    BY <1>3, <1>5 DEF Moves
  <2>2. cmd[d].alone /\ cmd[d] # Idle
    BY <1>4, <2>1, AlikeOrdered, IdleOrdered DEF Alike
  <2>3. QED BY <1>1, <1>5, <2>2 DEF Programmed
<1>6. CASE d = c
  <2>1. r # Idle /\ Alike(cmd'[c], r)
    BY <1>3, <1>4, <1>6, MovesOwn, IdleOrdered
  <2>2. r.alone /\ (First(r, "Define") \/ First(r, "ResizeDisk"))
    BY <1>4, <1>6, <2>1, AlikeOrdered DEF Alike
  <2>3. cmd[c].alone /\ (At(c, "CheckOff") \/ At(c, "Define"))
    BY <1>3, <2>1, <2>2 DEF Follows
  <2>4. CASE At(c, "CheckOff")
    <3>1. CheckOff(c)
      BY <2>4, OnlyThere
    <3>2. vm' = vm /\ (vm.st = "off" \/ Becomes(c, Idle))
      BY <3>1 DEF CheckOff
    <3>3. ~Becomes(c, Idle)
      <4> SUFFICES ASSUME Becomes(c, Idle) PROVE FALSE
        OBVIOUS
      <4>1. cmd'[c] = Idle
        BY DEF Becomes, Typed
      <4>2. QED BY <1>4, <1>6, <4>1, IdleOrdered
    <3>4. QED BY <3>2, <3>3
  <2>5. CASE At(c, "Define")
    <3>1. Define(c) /\ vm.st = "off" /\ vm \in VMs
      BY <2>3, <2>5, OnlyThere DEF Machine
    <3>2. QED BY <3>1 DEF Define, VMs
  <2>6. QED BY <2>3, <2>4, <2>5
<1>7. QED BY <1>5, <1>6

\* The others see the VM as it was, or start from the beginning, or turn it off.
LEMMA OtherOff ==
  ASSUME Typed, Programmed, Machine, NEW d \in Clients, SeenOff(d)',
         \/ ServerStarts \/ ServerStops \/ PowersOff
         \/ \E c \in Clients : \/ Confirms(c) \/ Killed(c)
                               \/ CanBegin(c) /\ \E r \in Requests : Begin(c, r)
  PROVE  vm'.st = "off"
<1>1. cmd'[d].alone /\ (First(cmd'[d], "Define") \/ First(cmd'[d], "ResizeDisk"))
  BY DEF SeenOff, At, First
<1>2. cmd'[d] # Idle
  BY <1>1, IdleOrdered
<1>3. ASSUME cmd'[d].alone = cmd[d].alone, cmd'[d].todo = cmd[d].todo, vm' = vm
      PROVE  vm'.st = "off"
  BY <1>1, <1>3 DEF Machine, At, First
<1>4. CASE ServerStarts
  <2>1. /\ vm' = vm
        /\ cmd' = cmd \/ cmd' = [c \in Clients |-> [cmd[c] EXCEPT !.eff = @ \ {"power"}]]
    BY <1>4 DEF ServerStarts
  <2>2. cmd'[d].alone = cmd[d].alone /\ cmd'[d].todo = cmd[d].todo
    BY <2>1 DEF Typed, Command
  <2>3. QED BY <1>3, <2>1, <2>2
<1>5. CASE ServerStops
  <2>1. vm' = vm /\ cmd' = [c \in Clients |-> IF cmd[c].api THEN Idle ELSE cmd[c]]
    BY <1>5 DEF ServerStops
  <2>2. cmd'[d] = cmd[d]
    BY <1>2, <2>1
  <2>3. QED BY <1>3, <2>1, <2>2
<1>6. CASE PowersOff
  BY <1>6, OffSound DEF PowersOff, Off, Machine, VMs
<1>7. ASSUME NEW c \in Clients, Confirms(c) \/ Killed(c) PROVE vm'.st = "off"
  <2>1. vm' = vm /\ Becomes(c, Idle)
    BY <1>7 DEF Confirms, Killed
  <2>2. cmd'[d] = cmd[d]
    BY <1>2, <2>1 DEF Becomes, Typed
  <2>3. QED BY <1>3, <2>1, <2>2
<1>8. ASSUME NEW c \in Clients, CanBegin(c), NEW r \in Requests, Begin(c, r)
      PROVE  vm'.st = "off"
  <2>1. Enters(c, Begun(r))
    BY <1>8, BeginEnters
  <2>2. d # c
    BY <1>1, <2>1 DEF Enters, Starts
  <2>3. QED BY <1>1, <1>2, <2>1, <2>2 DEF Enters
<1>9. QED BY <1>4, <1>5, <1>6, <1>7, <1>8
-----------------------------------------------------------------------------
(* The invariant.                                                           *)

LEMMA RunningStore == Running \in Stores /\ Running.env = Unset
<1> DEFINE e == [Empty EXCEPT !.p = 1]
           i == [of |-> 1, st |-> "running"]
           t == [e EXCEPT !.inst = i]
<1>1. e \in Stores /\ e.env = Unset
  BY EmptyStore DEF Stores, Store
<1>2. i \in [of : Nat, st : {"none", "running", "starting", "stopping", "stopped"}]
  OBVIOUS
<1>3. Running = t
  BY DEF Running
<1> HIDE DEF e, i
<1>4. t \in Stores /\ t.env = Unset
  BY <1>1, <1>2 DEF Stores, Store
<1>5. QED BY <1>3, <1>4

LEMMA InitInv == Init => IInv
<1> SUFFICES ASSUME Init PROVE IInv
  OBVIOUS
<1>1. file \in Stores /\ file.env.k = None
  <2>1. file \in {Empty, Running}
    BY ScopesAssumption DEF Init
  <2>2. QED BY <2>1, EmptyStore, RunningStore, UnsetKey
<1>2. /\ \A c \in Clients : cmd[c] = Idle
      /\ cmd \in [Clients -> Command]
  BY IdleType DEF Init
<1>3. Typed
  BY <1>1, <1>2 DEF Init, Typed
<1>4. Programmed
  BY <1>2, IdleType, IdleOrdered DEF Programmed
<1>5. \A c \in Clients : \A x : ~First(cmd[c], x) /\ ~Brings(cmd[c])
  BY <1>2, IdleOrdered
<1>6. Sealed
  <2>1. \A w \in Clients \cup {Server} : mem[w].env.k = None
    BY <1>1 DEF Init
  <2>2. \A c \in Clients : cmd[c].key = None
    BY <1>2 DEF Idle
  <2>3. None \in Good
    BY DEF Good
  <2>4. QED BY <1>1, <1>5, <2>1, <2>2, <2>3 DEF Sealed, At, First
<1>7. Merging
  BY <1>5 DEF Merging
<1>8. Honest
  <2>1. told = {} /\ \A c \in Clients : cmd[c].eff = {}
    BY <1>2, IdleType DEF Init
  <2>2. QED BY <2>1 DEF Honest
<1>9. Sound(vm)
  <2>1. Sound(NoVM) /\ Sound([NoVM EXCEPT !.st = "on", !.disk = DefaultDisk])
    BY NewVM DEF DefaultDisk, MaxDisk
  <2>2. vm \in {NoVM, [NoVM EXCEPT !.st = "on", !.disk = DefaultDisk]}
    BY DEF Init
  <2>3. QED BY <2>1, <2>2
<1>10. Machine /\ DeliversEnv
  BY <1>5, <1>9 DEF Sound, Delivers, DeliversEnv, Machine, At, First
<1>11. QED BY <1>3, <1>4, <1>6, <1>7, <1>8, <1>10 DEF IInv, Memories

LEMMA StepInv ==
  ASSUME IInv, [Next]_vars
  PROVE  IInv' /\ (Next => Grows)
<1>1. /\ Typed /\ Programmed /\ Merging /\ Machine /\ Memories
      /\ \A d \in Clients : SeenOff(d) => vm.st = "off"
  BY DEF IInv, Memories, Machine, SeenOff
<1>2. Sound(vm)
  BY DEF IInv, Machine, DeliversEnv, Sound, Delivers
<1>3. Memories'
  BY <1>1, NextMemories
<1>4. ASSUME Sound(vm'), \A d \in Clients : SeenOff(d)' => vm'.st = "off"
      PROVE  IInv'
  <2>1. Machine'
    BY <1>4 DEF Machine, SeenOff, Sound
  <2>2. DeliversEnv'
    BY <1>4 DEF DeliversEnv, Sound, Delivers
  <2>3. QED BY <1>3, <2>1, <2>2 DEF IInv
<1>5. CASE UNCHANGED vars
  <2>1. vm' = vm /\ cmd' = cmd
    BY <1>5 DEF vars
  <2>2. \A d \in Clients : SeenOff(d)' => vm'.st = "off"
    BY <1>1, <2>1 DEF SeenOff, At
  <2>3. Sound(vm') /\ Grows
    BY <1>2, <2>1, SameVM
  <2>4. QED BY <1>4, <2>2, <2>3
<1>6. ASSUME NEW c \in Clients, Project(c) \/ Resize(c) \/ Environment(c) \/ Application(c)
      PROVE  IInv' /\ Grows
  <2>1. Sound(vm') /\ Grows
    BY <1>1, <1>2, <1>6, CallVM
  <2>2. \A d \in Clients : SeenOff(d)' => vm'.st = "off"
    BY <1>1, <1>6, CallOff
  <2>3. QED BY <1>4, <2>1, <2>2
<1>7. ASSUME \/ ServerStarts \/ ServerStops \/ PowersOff
             \/ \E c \in Clients : \/ Confirms(c) \/ Killed(c)
                                   \/ CanBegin(c) /\ \E r \in Requests : Begin(c, r)
      PROVE  IInv' /\ Grows
  <2>1. \A d \in Clients : SeenOff(d)' => vm'.st = "off"
    BY <1>1, <1>7, OtherOff
  <2>2. vm' = vm \/ (PowersOff /\ vm' = Off)
    BY <1>7 DEF ServerStarts, ServerStops, PowersOff, Confirms, Killed, Begin
  <2>3. Sound(vm') /\ Grows
    BY <1>2, <2>2, SameVM, OffSound DEF Grows
  <2>4. QED BY <1>4, <2>1, <2>3
<1>8. QED BY <1>5, <1>6, <1>7 DEF Next

\* The inductive invariant: the memories (what commands still have to do, the
\* vault, what is merged and what was confirmed), the VM, and DeliversEnv.
THEOREM Invariant == Spec => []IInv
<1>1. IInv /\ [Next]_vars => IInv'
  BY StepInv
<1>2. QED BY InitInv, <1>1, PTL DEF Spec

\* The file, the memories, the vault and the VM stay of their types.
THEOREM TypeCorrect == Spec => []TypeOK
<1>1. IInv => TypeOK
  <2> SUFFICES ASSUME IInv PROVE TypeOK
    OBVIOUS
  <2>1. /\ file \in Stores /\ mem \in [Clients \cup {Server} -> Stores]
        /\ key \in Keys \cup {None, "torn"} /\ keys \subseteq Keys
        /\ fresh \subseteq Clients \cup {Server} /\ vm \in VMs
    BY DEF IInv, Memories, Typed, Machine
  <2>2. file \in Store /\ mem \in [Clients \cup {Server} -> Store]
    BY <2>1 DEF Stores
  <2>3. \A c \in Clients : cmd[c].op = "idle" <=> cmd[c] = Idle
    BY DEF IInv, Memories, Programmed
  <2>4. QED BY <2>1, <2>2, <2>3 DEF TypeOK, VMs
<1>2. QED BY Invariant, <1>1, PTL

\* What a command told its user stays what the file says, however many commands
\* and whichever calls of theirs come in between, until another changes it or an
\* older memory is saved over it (root.go:202-223; local.go: save).
THEOREM KeptConfirmed == Spec => []ConfirmedKept
<1>1. IInv => ConfirmedKept
  BY DEF IInv, Memories, Honest, ConfirmedKept
<1>2. QED BY Invariant, <1>1, PTL

\* Whatever is encrypted in the file can be decrypted with master.key, though
\* processes read and create it without a lock, as long as no two first uses
\* overlapped (keyring.go: LoadOrCreateMasterKey).
THEOREM ReadableSecrets == Spec => []SecretsReadable
<1>1. IInv => SecretsReadable
  BY DEF IInv, Memories, Sealed, Good, SecretsReadable
<1>2. QED BY Invariant, <1>1, PTL

\* Apps run with values in the clear, and one that the command line deployed by
\* itself with its own value or that of its project, though the project may have
\* changed since the command began (env.go: mergeProjectEnv, decryptProjectEnv).
THEOREM EnvDelivered == Spec => []DeliversEnv
<1>1. IInv => DeliversEnv
  BY DEF IInv
<1>2. QED BY Invariant, <1>1, PTL

\* The disk of a VM only grows, and a command that ran alone resizes it only
\* while the VM is off: nothing comes between its look at the state and
\* qemu-img (runtime.go: ResizeInstance).
THEOREM Resizes == Spec => ResizedOff
<1>1. IInv /\ [Next]_vars =>
        [vm.disk # 0 /\ vm'.disk \notin {0, vm.disk} =>
           /\ vm'.disk > vm.disk
           /\ (vm.st = "off" \/ \E c \in Clients : ~cmd[c].alone)]_vars
  BY StepInv DEF Grows
<1>2. QED BY Invariant, <1>1, PTL DEF Spec, ResizedOff
=============================================================================
