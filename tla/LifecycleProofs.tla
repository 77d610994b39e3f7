-------------------------- MODULE LifecycleProofs --------------------------
(***************************************************************************)
(* Proofs about Lifecycle, for every set of lines a configuration file may *)
(* have, every log level and every order of the plugins' addresses.        *)
(***************************************************************************)
EXTENDS Lifecycle, TLAPS

\* What the types of the plugins say.
LEMMA CapsFacts ==
    /\ \A p \in Plugin : Caps(p) \subseteq Role
    /\ \A p \in Plugin : "logger" \in Caps(p) => p = "filelogger"
    /\ \A p \in Plugin : "manager" \in Caps(p) =>
                            p \in {"random", "replay", "transcribe"}
    /\ \A p \in Plugin : {"actor", "extern"} \subseteq Caps(p) => p \in {"echo", "mosquitto"}
    /\ "other" \in Caps("transcribe")
<1>1. /\ Caps("echo") = {"actor", "extern"} /\ Caps("mosquitto") = {"actor", "extern"}
      /\ Caps("random") = {"manager"} /\ Caps("replay") = {"manager"}
      /\ Caps("transcribe") = {"manager", "other"} /\ Caps("filelogger") = {"logger"}
  BY DEF Caps
<1> QED
  BY <1>1, Zenon DEF Plugin, Role

-----------------------------------------------------------------------------
(* The roles.                                                              *)

RolesOK(rs) == rs \in [Plugin -> SUBSET Role] /\ \A p \in Plugin : rs[p] \subseteq Caps(p)

LEMMA AddRoleOK ==
    ASSUME NEW rs, RolesOK(rs), NEW p \in Plugin \cup {NULL}, NEW r
    PROVE  RolesOK(AddRole(rs, p, r))
<1>1. CASE p # NULL /\ r \in Caps(p)
  <2>1. p \in Plugin /\ r \in Role
    BY <1>1, CapsFacts
  <2>2. AddRole(rs, p, r) = [rs EXCEPT ![p] = @ \cup {r}]
    BY <1>1 DEF AddRole
  <2> QED
    BY <1>1, <2>1, <2>2 DEF RolesOK
<1>2. CASE ~(p # NULL /\ r \in Caps(p))
  BY <1>2 DEF AddRole
<1> QED
  BY <1>1, <1>2

LEMMA SetRoleOK ==
    ASSUME NEW rs, RolesOK(rs), NEW p \in Plugin \cup {NULL}, NEW r
    PROVE  RolesOK(SetRole(rs, p, r))
<1>1. CASE p # NULL /\ r \in Caps(p)
  <2>1. p \in Plugin /\ r \in Role
    BY <1>1, CapsFacts
  <2>2. SetRole(rs, p, r) = [rs EXCEPT ![p] = {r}]
    BY <1>1 DEF SetRole
  <2> QED
    BY <1>1, <2>1, <2>2 DEF RolesOK
<1>2. CASE ~(p # NULL /\ r \in Caps(p))
  BY <1>2 DEF SetRole
<1> QED
  BY <1>1, <1>2

-----------------------------------------------------------------------------
(* The inductive invariant.                                                *)

\* What the configuration points to is registered and of the right type.
ConfInv ==
    /\ conf.com_actor # NULL => conf.com_actor \in Registered /\ "actor" \in Caps(conf.com_actor)
    /\ conf.com_notify # NULL => conf.com_notify \in Registered /\ "extern" \in Caps(conf.com_notify)
    /\ conf.logger # NULL => conf.logger \in Registered /\ "logger" \in Caps(conf.logger)
    /\ conf.fault_manager # NULL =>
          conf.fault_manager \in Registered /\ "manager" \in Caps(conf.fault_manager)

\* Who holds something is registered and, before the end, loaded; the hooks
\* called so far have released what their plugins held.
HeldInv ==
    /\ held \subseteq Registered /\ "echo" \notin held
    /\ pc # "end" => Registered \subseteq libraries
    /\ pc = "end" => held = {}
    /\ pc = "cleanup" => \A k \in 1..(next - 1) : plugins[k] \notin held

\* The file of the logger is open until its own hook closes it.
FileInv ==
    /\ logger_used = "filelogger" => "filelogger" \in Registered
    /\ "filelogger" \in Registered /\ "filelogger" \notin held =>
          \/ pc \in {"end", "abort"}
          \/ pc = "cleanup" /\ \E j \in 1..(next - 1) : plugins[j] = "filelogger"

\* What the post init hooks called so far have done.
PostInv ==
    /\ pc \in {"open", "read"} => next = 1
    /\ pc \in {"nodes", "serve"} => next = Len(plugins) + 1
    /\ pc \in {"post", "nodes", "serve"} =>
          \A k \in 1..(next - 1) :
             /\ plugins[k] = "mosquitto" => "mosquitto" \in held
             /\ plugins[k] = "transcribe" => nested \in Registered /\ "manager" \in Caps(nested)
    /\ pc \in {"nodes", "serve"} =>
          Required /\ (conf.com_actor = "mosquitto" => callback)
    /\ pc = "serve" => Decider(conf.fault_manager) # "transcribe"

LInv == TypeOK /\ RolesWithinCaps /\ ConfInv /\ HeldInv /\ FileInv /\ PostInv
            /\ LostOnlyAfterClose

LEMMA LInit == Init => LInv
<1> SUFFICES ASSUME Init PROVE LInv
  OBVIOUS
<1>1. lvl \in 0..5
  BY LevelAssumption DEF Init, log_level_from_int, Warning
<1>2. Registered = {}
  BY DEF Init, PmInit, Registered
<1>3. plugins \in Seq(Plugin) /\ Len(plugins) = 0 /\ next = 1
  BY DEF Init, PmInit
<1>4. conf \in [com_actor : Plugin \cup {NULL}, com_notify : Plugin \cup {NULL},
                logger : Plugin \cup {NULL}, fault_manager : Plugin \cup {NULL}]
  BY DEF Init
<1>5. TypeOK
  <2>1. roles \in [Plugin -> SUBSET Role] /\ libraries \subseteq Plugin
    BY DEF Init, PmInit
  <2>2. next \in 1..(Len(plugins) + 1)
    BY <1>3
  <2>3. callback \in BOOLEAN
    BY DEF Init
  <2> QED
    BY <1>1, <1>3, <1>4, <2>1, <2>2, <2>3 DEF Init, TypeOK
<1>6. RolesWithinCaps
  BY DEF Init, PmInit, RolesWithinCaps
<1> QED
  BY <1>2, <1>3, <1>5, <1>6 DEF Init, PmInit, LInv, ConfInv, HeldInv, FileInv, PostInv,
     LostOnlyAfterClose

-----------------------------------------------------------------------------
(* Steps.                                                                  *)

\* register_plugin adds its plugin and nothing else.
LEMMA RegisterFacts ==
    ASSUME TypeOK, RolesWithinCaps, NEW p \in Plugin, Register(p)
    PROVE  /\ plugins' \in Seq(Plugin) /\ Len(plugins') = Len(plugins) + 1
           /\ Registered' = Registered \cup {p}
           /\ roles' \in [Plugin -> SUBSET Role]
           /\ RolesWithinCaps'
<1>1. PICK k \in 1..(Len(plugins) + 1) :
          plugins' = [j \in 1..(Len(plugins) + 1) |->
                        IF j < k THEN plugins[j]
                        ELSE IF j = k THEN p ELSE plugins[j - 1]]
  BY DEF Register
<1>2. plugins \in Seq(Plugin) /\ Len(plugins) \in Nat
  BY DEF TypeOK
<1>3. \A j \in 1..(Len(plugins) + 1) : plugins'[j] \in Plugin
  BY <1>1, <1>2
<1>4. plugins' \in Seq(Plugin) /\ Len(plugins') = Len(plugins) + 1
  BY <1>1, <1>2, <1>3
<1>5. Registered' \subseteq Registered \cup {p}
  BY <1>1, <1>2, <1>4 DEF Registered
<1>6. p \in Registered'
  BY <1>1, <1>2, <1>4 DEF Registered
<1>7. Registered \subseteq Registered'
  <2> SUFFICES ASSUME NEW j \in 1..Len(plugins) PROVE plugins[j] \in Registered'
    BY DEF Registered
  <2>1. CASE j < k
    BY <2>1, <1>1, <1>2, <1>4 DEF Registered
  <2>2. CASE ~(j < k)
    <3>1. j + 1 \in 1..Len(plugins') /\ plugins'[j + 1] = plugins[j]
      BY <2>2, <1>1, <1>2, <1>4
    <3> QED
      BY <3>1 DEF Registered
  <2> QED
    BY <2>1, <2>2
<1>8. roles' \in [Plugin -> SUBSET Role] /\ RolesWithinCaps'
  BY DEF Register, TypeOK, RolesWithinCaps
<1> QED
  BY <1>4, <1>5, <1>6, <1>7, <1>8

\* Before the clean-up nothing is lost, and afterwards only by a mosquitto
\* that comes after the file logger.
LEMMA LogFacts ==
    ASSUME LInv, NEW who \in {"mosquitto", "network"}, NEW levels, Log(who, levels),
           NEW k \in 1..Len(plugins), plugins[k] = "mosquitto",
           pc \in {"end", "abort"} => FALSE, pc = "cleanup" => k >= next
    PROVE  /\ lost' \subseteq {"main", "mosquitto", "network"}
           /\ (lost' # lost =>
                 /\ pc = "cleanup"
                 /\ \E j, m \in 1..Len(plugins) :
                       j < m /\ plugins[j] = "filelogger" /\ plugins[m] = "mosquitto")
           /\ lost' \subseteq lost \cup {who}
<1>1. CASE lost' = lost
  BY <1>1 DEF LInv, TypeOK
<1>2. CASE /\ logger_used = "filelogger" /\ "filelogger" \notin held
           /\ lost' = lost \cup {who}
  <2>1. pc = "cleanup" /\ \E j \in 1..(next - 1) : plugins[j] = "filelogger"
    BY <1>2 DEF LInv, FileInv
  <2>2. PICK j \in 1..(next - 1) : plugins[j] = "filelogger"
    BY <2>1
  <2>3. next \in 1..(Len(plugins) + 1) /\ Len(plugins) \in Nat
    BY DEF LInv, TypeOK
  <2>4. j \in 1..Len(plugins) /\ j < k
    BY <2>1, <2>3
  <2>5. lost' \subseteq {"main", "mosquitto", "network"}
    BY <1>2 DEF LInv, TypeOK
  <2> QED
    BY <1>2, <2>1, <2>2, <2>4, <2>5
<1> QED
  BY <1>1, <1>2 DEF Log

\* The conjuncts about plugins, configuration and what is held carry over
\* when nothing of that changes and main goes on before serving, or gives up.
LEMMA Frame ==
    ASSUME LInv, TypeOK', RolesWithinCaps',
           UNCHANGED <<plugins, libraries, conf, held, lost, logger_used>>,
           \/ pc' = pc /\ UNCHANGED <<next, nested, callback>>
           \/ pc' \in {"failed", "abort"},
           pc \notin {"cleanup", "end", "abort"}
    PROVE  LInv'
<1>1. Registered' = Registered
  BY DEF Registered
<1>2. lost = {}
  BY DEF LInv, LostOnlyAfterClose
<1>3. ConfInv' /\ HeldInv' /\ FileInv' /\ LostOnlyAfterClose'
  BY <1>1, <1>2 DEF LInv, ConfInv, HeldInv, FileInv, LostOnlyAfterClose
<1>4. PostInv'
  BY <1>1 DEF LInv, PostInv, Required, Decider
<1> QED
  BY <1>3, <1>4 DEF LInv

\* A step of load_config.
LEMMA ReadLineStep ==
    ASSUME LInv, ReadLine
    PROVE  LInv'
<1>1. PICK line \in Lines :
          \/ ReadOther(line) \/ ReadLib(line) \/ ReadMisplaced(line)
          \/ SetConfig(line) \/ SetTic(line)
  BY DEF ReadLine
<1>2. pc = "read" /\ UNCHANGED <<next, nested, logger_used, lvl, lost, callback>>
  BY DEF ReadLine, logVars
<1>3. line \in Line
  BY LinesAssumption
<1>4. CASE ReadOther(line) \/ ReadMisplaced(line) \/ SetTic(line)
  <2>1. /\ UNCHANGED <<plugins, roles, libraries, conf, fault_name, held>>
        /\ pc' \in {pc, "failed", "abort"}
        /\ section' \in {"none", "libs", "config"}
    BY <1>4, <1>2 DEF ReadOther, ReadMisplaced, SetTic, pmVars, confVars, heldVars, LInv, TypeOK
  <2>2. TypeOK' /\ RolesWithinCaps'
    BY <1>2, <2>1 DEF LInv, TypeOK, RolesWithinCaps
  <2> QED
    BY <1>2, <2>1, <2>2, Frame
<1>5. CASE SetConfig(line)
  <2>1. UNCHANGED <<plugins, roles, libraries, section, fault_name, held>>
    BY <1>5 DEF SetConfig, pmVars, heldVars
  <2>2. CASE pc' = "failed" /\ conf' = conf
    <3>1. TypeOK' /\ RolesWithinCaps'
      BY <1>2, <2>1, <2>2 DEF LInv, TypeOK, RolesWithinCaps
    <3> QED
      BY <1>2, <2>1, <2>2, <3>1, Frame
  <2>3. CASE /\ line.value \in Registered /\ Wanted(line.id) \subseteq Caps(line.value)
             /\ pc' = pc
             /\ conf' = [m \in DOMAIN conf |->
                          IF \E r \in Wanted(line.id) : Member(r) = m
                          THEN line.value ELSE conf[m]]
    <3>1. line.id \in Id \ {"tic"}
      BY <1>3, <1>5 DEF SetConfig, Line
    <3>2. line.value \in Plugin
      BY <2>3 DEF Registered, LInv, TypeOK
    <3>3. DOMAIN conf = {"com_actor", "com_notify", "logger", "fault_manager"}
      BY DEF LInv, TypeOK
    <3>4. /\ Member("actor") = "com_actor" /\ Member("extern") = "com_notify"
          /\ Member("logger") = "logger" /\ Member("manager") = "fault_manager"
      BY DEF Member
    <3>5. Wanted(line.id) \subseteq {"actor", "extern", "logger", "manager"}
      BY <3>1 DEF Wanted, Id
    <3>6. /\ (conf'.com_actor # conf.com_actor => conf'.com_actor = line.value /\ "actor" \in Wanted(line.id))
          /\ (conf'.com_notify # conf.com_notify => conf'.com_notify = line.value /\ "extern" \in Wanted(line.id))
          /\ (conf'.logger # conf.logger => conf'.logger = line.value /\ "logger" \in Wanted(line.id))
          /\ (conf'.fault_manager # conf.fault_manager => conf'.fault_manager = line.value /\ "manager" \in Wanted(line.id))
      BY <2>3, <3>3, <3>4, <3>5
    <3>7. Registered' = Registered
      BY <2>1 DEF Registered
    <3>8. ConfInv'
      BY <2>3, <3>6, <3>7 DEF LInv, ConfInv
    <3>9. conf' \in [com_actor : Plugin \cup {NULL}, com_notify : Plugin \cup {NULL},
                     logger : Plugin \cup {NULL}, fault_manager : Plugin \cup {NULL}]
      BY <2>3, <3>2 DEF LInv, TypeOK
    <3>10. TypeOK' /\ RolesWithinCaps'
      BY <1>2, <2>1, <2>3, <3>9 DEF LInv, TypeOK, RolesWithinCaps
    <3>11. HeldInv' /\ FileInv' /\ PostInv' /\ LostOnlyAfterClose'
      BY <1>2, <2>1, <2>3, <3>7 DEF LInv, HeldInv, FileInv, PostInv, LostOnlyAfterClose
    <3> QED
      BY <3>8, <3>10, <3>11 DEF LInv
  <2> QED
    BY <1>5, <2>2, <2>3 DEF SetConfig
<1>6. CASE ReadLib(line)
  <2> DEFINE p == line.lib
  <2>1. p \in Plugin /\ line.arg \in Value
    BY <1>3, <1>6 DEF ReadLib, Line
  <2>2. UNCHANGED <<section, conf>>
    BY <1>6 DEF ReadLib
  <2>3. CASE /\ UNCHANGED <<plugins, roles, libraries, held, fault_name>>
             /\ pc' \in {pc, "failed", "abort"}
    <3>1. TypeOK' /\ RolesWithinCaps'
      BY <1>2, <2>2, <2>3 DEF LInv, TypeOK, RolesWithinCaps
    <3> QED
      BY <1>2, <2>2, <2>3, <3>1, Frame
  <2>4. CASE /\ LoadNew(p)
             /\ held' = IF OpensFile(p) THEN held \cup {p} ELSE held
             /\ fault_name' = IF p = "transcribe" THEN line.arg ELSE fault_name
             /\ pc' = pc
    <3>1. Register(p) /\ libraries' = libraries \cup {p}
      BY <2>4 DEF LoadNew
    <3>2. /\ plugins' \in Seq(Plugin) /\ Len(plugins') = Len(plugins) + 1
          /\ Registered' = Registered \cup {p}
          /\ roles' \in [Plugin -> SUBSET Role]
          /\ RolesWithinCaps'
      BY <2>1, <3>1, RegisterFacts DEF LInv
    <3>3. next = 1 /\ next' = 1 /\ Len(plugins) \in Nat
      BY <1>2 DEF LInv, PostInv, TypeOK
    <3>4. fault_name' \in Value \cup {NULL} /\ libraries' \subseteq Plugin /\ held' \subseteq Plugin
      BY <2>1, <2>4, <3>1 DEF LInv, TypeOK
    <3>5. next' \in 1..(Len(plugins') + 1)
      BY <3>2, <3>3
    <3>6. TypeOK'
      BY <1>2, <2>2, <2>4, <3>2, <3>4, <3>5 DEF LInv, TypeOK
    <3>7. ConfInv' /\ PostInv'
      BY <1>2, <2>2, <2>4, <3>2, <3>3 DEF LInv, ConfInv, PostInv
    <3>8. HeldInv'
      BY <1>2, <2>4, <3>1, <3>2 DEF LInv, HeldInv, OpensFile
    <3>9. FileInv'
      BY <1>2, <2>4, <3>2 DEF LInv, FileInv, OpensFile
    <3>10. LostOnlyAfterClose'
      BY <1>2 DEF LInv, LostOnlyAfterClose
    <3> QED
      BY <3>2, <3>6, <3>7, <3>8, <3>9, <3>10 DEF LInv
  <2> QED
    BY <1>6, <2>3, <2>4 DEF ReadLib, LoadFails, LoadAgain, pmVars, heldVars
<1> QED
  BY <1>1, <1>4, <1>5, <1>6

\* main gives out the roles.
LEMMA EndOfFileStep ==
    ASSUME LInv, EndOfFile
    PROVE  LInv'
<1>1. /\ pc = "read" /\ pc' = "post"
      /\ UNCHANGED <<plugins, libraries, section, conf, fault_name, next, nested, lvl,
                     lost, held, callback>>
  BY DEF EndOfFile, confVars, heldVars
<1>2. conf.com_actor \in Plugin \cup {NULL} /\ conf.com_notify \in Plugin \cup {NULL}
      /\ conf.logger \in Plugin \cup {NULL} /\ conf.fault_manager \in Plugin \cup {NULL}
  BY DEF LInv, TypeOK
<1>3. RolesOK(roles)
  BY DEF LInv, TypeOK, RolesWithinCaps, RolesOK
<1> DEFINE r1 == AddRole(roles, conf.com_actor, "actor")
           r2 == AddRole(r1, conf.com_notify, "extern")
           r3 == AddRole(r2, conf.logger, "logger")
           r4 == AddRole(r3, conf.fault_manager, "manager")
<1>4. RolesOK(r1)
  BY <1>2, <1>3, AddRoleOK
<1>5. RolesOK(r2)
  <2> HIDE DEF r1
  <2> QED BY <1>2, <1>4, AddRoleOK
<1>6. RolesOK(r3)
  <2> HIDE DEF r2
  <2> QED BY <1>2, <1>5, AddRoleOK
<1>7. RolesOK(r4)
  <2> HIDE DEF r3
  <2> QED BY <1>2, <1>6, AddRoleOK
<1>8. roles' = r4
  BY DEF EndOfFile
<1>9. roles' \in [Plugin -> SUBSET Role] /\ RolesWithinCaps'
  <2> HIDE DEF r4
  <2> QED BY <1>7, <1>8 DEF RolesOK, RolesWithinCaps
<1>10. /\ logger_used' \in {"stdout", "filelogger"}
       /\ (logger_used' = "filelogger" => conf.logger # NULL)
  BY DEF EndOfFile
<1>11. Registered' = Registered
  BY <1>1 DEF Registered
<1>12. TypeOK'
  BY <1>1, <1>9, <1>10 DEF LInv, TypeOK
<1>13. FileInv'
  <2>1. Registered \subseteq Plugin
    BY DEF Registered, LInv, TypeOK
  <2>2. conf.logger # NULL => "filelogger" \in Registered
    BY <2>1, CapsFacts DEF LInv, ConfInv
  <2> QED
    BY <1>1, <1>10, <1>11, <2>2 DEF LInv, FileInv
<1>14. ConfInv' /\ HeldInv' /\ LostOnlyAfterClose'
  BY <1>1, <1>11 DEF LInv, ConfInv, HeldInv, LostOnlyAfterClose
<1>15. PostInv'
  BY <1>1 DEF LInv, PostInv, TypeOK
<1> QED
  BY <1>9, <1>12, <1>13, <1>14, <1>15 DEF LInv

\* A post init hook.
LEMMA PostInitStep ==
    ASSUME LInv, PostInit
    PROVE  LInv'
<1> DEFINE p == plugins[next]
<1>1. /\ pc = "post" /\ next <= Len(plugins) /\ next' = next + 1
      /\ UNCHANGED <<plugins, libraries, section, conf, fault_name, logger_used, lvl,
                     lost, callback>>
      /\ held' = IF RunsThread(p) THEN held \cup {p} ELSE held
  BY DEF PostInit, confVars, logVars
<1>2. /\ next \in Nat \ {0} /\ next \in 1..Len(plugins) /\ p \in Plugin /\ p \in Registered
      /\ Len(plugins) \in Nat /\ Registered \subseteq Plugin
  BY <1>1 DEF LInv, TypeOK, Registered
<1>3. Registered' = Registered
  BY <1>1 DEF Registered
<1>4. /\ RolesOK(roles') /\ nested' \in Plugin \cup {NULL} /\ pc' \in {pc, "failed", "abort"}
      /\ (pc' = pc =>
            IF p = "transcribe" THEN nested' \in Registered /\ "manager" \in Caps(nested')
                                ELSE nested' = nested)
  <2>1. RolesOK(roles) /\ nested \in Plugin \cup {NULL}
    BY DEF LInv, TypeOK, RolesWithinCaps, RolesOK
  <2>2. CASE p # "transcribe"
    BY <2>1, <2>2 DEF PostInit
  <2>3. CASE p = "transcribe" /\ fault_name \notin Registered
    BY <2>1, <2>3, <1>1 DEF PostInit, PostTranscribe
  <2>4. CASE p = "transcribe" /\ fault_name \in Registered
    <3>1. /\ roles' = SetRole(AddRole(roles, fault_name, "manager"), "transcribe", "other")
          /\ nested' = fault_name
          /\ pc' = IF "manager" \in Caps(fault_name) THEN pc ELSE "abort"
      BY <2>4 DEF PostInit, PostTranscribe
    <3>2. fault_name \in Plugin /\ "transcribe" \in Plugin
      BY <2>4, <1>2 DEF Plugin
    <3>3. RolesOK(AddRole(roles, fault_name, "manager"))
      BY <2>1, <3>2, AddRoleOK
    <3>4. RolesOK(roles')
      BY <3>1, <3>2, <3>3, SetRoleOK
    <3> QED
      BY <1>1, <2>4, <3>1, <3>2, <3>4
  <2> QED
    BY <2>2, <2>3, <2>4
<1>5. roles' \in [Plugin -> SUBSET Role] /\ RolesWithinCaps'
  BY <1>4 DEF RolesOK, RolesWithinCaps
<1>6. next' \in 1..(Len(plugins') + 1)
  BY <1>1, <1>2
<1>7. held \subseteq held' /\ held' \subseteq Registered /\ "echo" \notin held'
      /\ held' \subseteq Plugin
  BY <1>1, <1>2 DEF RunsThread, LInv, HeldInv
<1>8. TypeOK'
  BY <1>1, <1>4, <1>5, <1>6, <1>7 DEF LInv, TypeOK
<1>9. ConfInv' /\ FileInv' /\ LostOnlyAfterClose'
  BY <1>1, <1>3, <1>4, <1>7 DEF LInv, ConfInv, FileInv, LostOnlyAfterClose
<1>10. HeldInv'
  BY <1>1, <1>3, <1>4, <1>7 DEF LInv, HeldInv
<1>11. PostInv'
  <2>1. SUFFICES ASSUME pc' = "post"
                 PROVE  \A k \in 1..(next' - 1) :
                   /\ plugins'[k] = "mosquitto" => "mosquitto" \in held'
                   /\ plugins'[k] = "transcribe" =>
                        nested' \in Registered' /\ "manager" \in Caps(nested')
    BY <1>1, <1>4 DEF PostInv
  <2> SUFFICES ASSUME NEW k \in 1..(next' - 1)
               PROVE  /\ plugins[k] = "mosquitto" => "mosquitto" \in held'
                      /\ plugins[k] = "transcribe" =>
                            nested' \in Registered /\ "manager" \in Caps(nested')
    BY <1>1, <1>3
  <2>2. k \in 1..(next - 1) \/ k = next
    BY <1>1, <1>2
  <2>3. k \in 1..(next - 1) =>
          /\ plugins[k] = "mosquitto" => "mosquitto" \in held
          /\ plugins[k] = "transcribe" => nested \in Registered /\ "manager" \in Caps(nested)
    BY <1>1 DEF LInv, PostInv
  <2>4. p = "mosquitto" => "mosquitto" \in held'
    BY <1>1 DEF RunsThread
  <2>5. IF p = "transcribe" THEN nested' \in Registered /\ "manager" \in Caps(nested')
                            ELSE nested' = nested
    BY <1>1, <1>4, <2>1
  <2> QED
    BY <1>7, <2>2, <2>3, <2>4, <2>5
<1> QED
  BY <1>5, <1>8, <1>9, <1>10, <1>11 DEF LInv

\* The rest of the start.
LEMMA StartStep ==
    ASSUME LInv, OpenFile \/ CheckRequired \/ GetNodes
    PROVE  LInv'
<1>1. UNCHANGED <<plugins, roles, libraries, section, conf, fault_name, next, nested,
                  logger_used, lvl, lost, held>>
  BY DEF OpenFile, CheckRequired, GetNodes, pmVars, confVars, logVars, heldVars
<1>2. Registered' = Registered
  BY <1>1 DEF Registered
<1>3. /\ pc \in {"open", "post", "nodes"} /\ pc' \in {"read", "nodes", "serve", "failed", "abort"}
      /\ callback' \in BOOLEAN
  BY DEF OpenFile, CheckRequired, GetNodes, LInv, TypeOK
<1>4. TypeOK' /\ RolesWithinCaps'
  BY <1>1, <1>3 DEF LInv, TypeOK, RolesWithinCaps
<1>5. ConfInv' /\ HeldInv' /\ FileInv' /\ LostOnlyAfterClose'
  BY <1>1, <1>2, <1>3 DEF LInv, ConfInv, HeldInv, FileInv, LostOnlyAfterClose
<1>6. PostInv'
  <2>1. CASE OpenFile
    BY <1>1, <1>2, <2>1 DEF OpenFile, LInv, PostInv
  <2>2. CASE CheckRequired
    <3>1. pc = "post" /\ pc' \in {"nodes", "failed"} /\ next = Len(plugins) + 1
      BY <2>2 DEF CheckRequired
    <3>2. pc' = "nodes" => Required' /\ (conf'.com_actor = "mosquitto" => callback')
      BY <1>1, <2>2 DEF CheckRequired, Required
    <3> QED
      BY <1>1, <1>2, <3>1, <3>2 DEF LInv, PostInv
  <2>3. CASE GetNodes
    <3>1. pc = "nodes" /\ pc' \in {"serve", "failed", "abort"} /\ UNCHANGED callback
      BY <2>3 DEF GetNodes
    <3>2. pc' = "serve" => Decider(conf.fault_manager)' # "transcribe"
      BY <1>1, <2>3 DEF GetNodes, Decider
    <3>3. Required' = Required
      BY <1>1 DEF Required
    <3> QED
      BY <1>1, <1>2, <3>1, <3>2, <3>3 DEF LInv, PostInv
  <2> QED
    BY <2>1, <2>2, <2>3
<1> QED
  BY <1>4, <1>5, <1>6 DEF LInv

\* The clean-up.
LEMMA CleanupStep ==
    ASSUME LInv, EndServe \/ CleanupPlugin \/ EndOfMain
    PROVE  LInv'
<1>1. UNCHANGED <<plugins, roles, section, conf, fault_name, nested, logger_used, lvl,
                  callback>>
  BY DEF EndServe, CleanupPlugin, EndOfMain, UnloadAll, pmVars, confVars, logVars, heldVars
<1>2. Registered' = Registered
  BY <1>1 DEF Registered
<1>3. next \in 1..(Len(plugins) + 1) /\ Len(plugins) \in Nat /\ held \subseteq Plugin
  BY DEF LInv, TypeOK
<1>4. ConfInv'
  BY <1>1, <1>2 DEF LInv, ConfInv
<1>5. RolesWithinCaps'
  BY <1>1 DEF LInv, RolesWithinCaps
<1>6. CASE EndServe
  <2>1. /\ pc = "serve" /\ pc' = "cleanup" /\ next' = 1 /\ UNCHANGED <<libraries, held>>
        /\ Log("main", {Info})
    BY <1>6 DEF EndServe, pmVars, heldVars
  <2>2. lost' = lost
    BY <2>1 DEF Log, LInv, FileInv
  <2>3. lost = {}
    BY <2>1 DEF LInv, LostOnlyAfterClose
  <2>4. TypeOK'
    BY <1>1, <1>3, <2>1, <2>2 DEF LInv, TypeOK
  <2>5. HeldInv' /\ FileInv' /\ PostInv' /\ LostOnlyAfterClose'
    BY <1>1, <1>2, <2>1, <2>2, <2>3 DEF LInv, HeldInv, FileInv, PostInv, LostOnlyAfterClose
  <2> QED
    BY <1>4, <1>5, <2>4, <2>5 DEF LInv
<1>7. CASE EndOfMain
  <2>1. /\ pc = "cleanup" /\ pc' = "end" /\ next = Len(plugins) + 1 /\ libraries' = {}
        /\ UNCHANGED <<next, held, lost>>
    BY <1>7 DEF EndOfMain, UnloadAll, logVars, heldVars
  <2>2. held = {}
    BY <1>3, <2>1 DEF LInv, HeldInv, Registered
  <2>3. TypeOK'
    BY <1>1, <2>1 DEF LInv, TypeOK
  <2>4. HeldInv' /\ FileInv' /\ PostInv' /\ LostOnlyAfterClose'
    BY <1>1, <1>2, <2>1, <2>2 DEF LInv, HeldInv, FileInv, PostInv, LostOnlyAfterClose
  <2> QED
    BY <1>4, <1>5, <2>3, <2>4 DEF LInv
<1>8. CASE CleanupPlugin
  <2> DEFINE p == plugins[next]
  <2>1. /\ pc = "cleanup" /\ next <= Len(plugins) /\ next' = next + 1
        /\ UNCHANGED libraries
        /\ held' = IF HasCleanup(p) THEN held \ {p} ELSE held
        /\ pc' \in {pc, "abort"}
    BY <1>8 DEF CleanupPlugin, pmVars
  <2>2. p \notin held' /\ held' \subseteq held
    BY <2>1 DEF HasCleanup, LInv, HeldInv
  <2>3. held' = held \ {p}
    BY <2>1 DEF HasCleanup, LInv, HeldInv
  <2>4. next \in 1..Len(plugins)
    BY <1>3, <2>1
  <2>5. /\ lost' \subseteq {"main", "mosquitto", "network"}
        /\ (lost' # lost => /\ lost' \subseteq lost \cup {"mosquitto"}
                            /\ \E j, m \in 1..Len(plugins) :
                                  j < m /\ plugins[j] = "filelogger"
                                        /\ plugins[m] = "mosquitto")
    <3>1. CASE p = "mosquitto"
      <4>1. Log("mosquitto", {Debug})
        BY <1>8, <3>1 DEF CleanupPlugin, RunsThread
      <4> QED
        BY <2>1, <2>4, <3>1, <4>1, LogFacts
    <3>2. CASE p # "mosquitto"
      BY <1>8, <3>2 DEF CleanupPlugin, RunsThread, LInv, TypeOK
    <3> QED
      BY <3>1, <3>2
  <2>6. next' \in 1..(Len(plugins') + 1)
    BY <1>1, <1>3, <2>1
  <2>7. TypeOK'
    BY <1>1, <1>3, <2>1, <2>2, <2>5, <2>6 DEF LInv, TypeOK
  <2>8. HeldInv'
    <3>1. \A k \in 1..(next' - 1) : plugins'[k] \notin held'
      <4> SUFFICES ASSUME NEW k \in 1..(next' - 1) PROVE plugins[k] \notin held'
        BY <1>1
      <4>1. k \in 1..(next - 1) \/ k = next
        BY <1>3, <2>1
      <4> QED
        BY <2>1, <2>2, <4>1 DEF LInv, HeldInv
    <3> QED
      BY <1>2, <2>1, <2>2, <3>1 DEF LInv, HeldInv
  <2>9. FileInv'
    <3>1. SUFFICES ASSUME "filelogger" \in Registered, "filelogger" \notin held'
                   PROVE  \E j \in 1..(next' - 1) : plugins'[j] = "filelogger"
      BY <1>1, <1>2, <2>1 DEF LInv, FileInv
    <3>2. CASE "filelogger" \in held
      <4>1. p = "filelogger" /\ next \in 1..(next' - 1)
        BY <1>3, <2>1, <2>3, <3>1, <3>2
      <4> QED
        BY <1>1, <4>1
    <3>3. CASE "filelogger" \notin held
      <4>1. PICK j \in 1..(next - 1) : plugins[j] = "filelogger"
        BY <2>1, <3>1, <3>3 DEF LInv, FileInv
      <4>2. j \in 1..(next' - 1)
        BY <1>3, <2>1
      <4> QED
        BY <1>1, <4>1, <4>2
    <3> QED
      BY <3>2, <3>3
  <2>10. PostInv'
    BY <2>1 DEF PostInv
  <2>11. LostOnlyAfterClose'
    BY <1>1, <2>1, <2>5 DEF LInv, LostOnlyAfterClose
  <2> QED
    BY <1>4, <1>5, <2>7, <2>8, <2>9, <2>10, <2>11 DEF LInv
<1> QED
  BY <1>6, <1>7, <1>8

\* The network thread, and what a write to a closed file may do.
LEMMA OtherStep ==
    ASSUME LInv, NetMessage \/ UseAfterClose \/ UNCHANGED vars
    PROVE  LInv'
<1>1. UNCHANGED <<plugins, roles, libraries, section, conf, fault_name, next, nested,
                  logger_used, lvl, held, callback>>
  BY DEF NetMessage, UseAfterClose, vars, pmVars, confVars, logVars, heldVars
<1>2. Registered' = Registered
  BY <1>1 DEF Registered
<1>3. RolesWithinCaps' /\ ConfInv'
  BY <1>1, <1>2 DEF LInv, RolesWithinCaps, ConfInv
<1>4. CASE NetMessage
  <2>1. pc' = pc /\ pc \notin {"end", "abort"} /\ "mosquitto" \in held
    BY <1>4 DEF NetMessage, Running
  <2>2. PICK l : Log("network", {Debug, l})
    BY <1>4 DEF NetMessage
  <2>3. PICK k \in 1..Len(plugins) : plugins[k] = "mosquitto"
    BY <2>1 DEF LInv, HeldInv, Registered
  <2>4. pc = "cleanup" => k >= next
    <3>1. pc = "cleanup" => k \notin 1..(next - 1)
      BY <2>1, <2>3 DEF LInv, HeldInv
    <3> QED
      BY <3>1 DEF LInv, TypeOK
  <2>5. /\ lost' \subseteq {"main", "mosquitto", "network"}
        /\ (lost' # lost =>
                 /\ pc = "cleanup"
                 /\ \E j, m \in 1..Len(plugins) :
                       j < m /\ plugins[j] = "filelogger" /\ plugins[m] = "mosquitto")
        /\ lost' \subseteq lost \cup {"network"}
    BY <2>1, <2>2, <2>3, <2>4, LogFacts
  <2>6. TypeOK'
    BY <1>1, <2>1, <2>5 DEF LInv, TypeOK
  <2>7. HeldInv' /\ FileInv' /\ LostOnlyAfterClose'
    BY <1>1, <1>2, <2>1, <2>5 DEF LInv, HeldInv, FileInv, LostOnlyAfterClose
  <2>8. PostInv'
    BY <1>1, <1>2, <2>1 DEF LInv, PostInv, Required, Decider
  <2> QED
    BY <1>3, <2>6, <2>7, <2>8 DEF LInv
<1>5. CASE UseAfterClose
  <2>1. pc = "cleanup" /\ pc' = "abort" /\ lost' = lost
    BY <1>5 DEF UseAfterClose, Running, logVars, LInv, LostOnlyAfterClose
  <2>2. TypeOK'
    BY <1>1, <2>1 DEF LInv, TypeOK
  <2>3. HeldInv' /\ FileInv' /\ PostInv' /\ LostOnlyAfterClose'
    BY <1>1, <1>2, <2>1 DEF LInv, HeldInv, FileInv, PostInv, LostOnlyAfterClose
  <2> QED
    BY <1>3, <2>2, <2>3 DEF LInv
<1>6. CASE UNCHANGED vars
  <2>1. pc' = pc /\ lost' = lost
    BY <1>6 DEF vars, logVars
  <2>2. TypeOK'
    BY <1>1, <2>1 DEF LInv, TypeOK
  <2>3. HeldInv' /\ FileInv' /\ LostOnlyAfterClose'
    BY <1>1, <1>2, <2>1 DEF LInv, HeldInv, FileInv, LostOnlyAfterClose
  <2>4. PostInv'
    BY <1>1, <1>2, <2>1 DEF LInv, PostInv, Required, Decider
  <2> QED
    BY <1>3, <2>2, <2>3, <2>4 DEF LInv
<1> QED
  BY <1>4, <1>5, <1>6

LEMMA LStep == LInv /\ [Next]_vars => LInv'
  BY ReadLineStep, EndOfFileStep, PostInitStep, StartStep, CleanupStep, OtherStep
     DEF Next, Main, Stopped

LEMMA Life == Spec => []LInv
  BY LInit, LStep, PTL DEF Spec

-----------------------------------------------------------------------------
(* Theorems.                                                               *)

\* The roles of a plugin are within its capabilities (add_role, set_role and
\* all their callers).
THEOREM RolesCorrect == Spec => []RolesWithinCaps
<1>1. LInv => RolesWithinCaps
  BY DEF LInv
<1> QED
  BY <1>1, Life, PTL

\* No library is unloaded while the plugin it has registered holds a file or
\* runs a thread, whatever is loaded again (plugin_manager::cleanup).  For the
\* copies, whose plugins were refused, this is false.
THEOREM ReleaseCorrect == Spec => []Released
<1>1. LInv => Released
  BY DEF LInv, HeldInv, Released
<1> QED
  BY <1>1, Life, PTL

\* Messages are lost only between the hooks of the file logger and of a
\* mosquitto with a higher address (plugin_manager::cleanup, logging_fun).
THEOREM LogCorrect == Spec => []LostOnlyAfterClose
<1>1. LInv => LostOnlyAfterClose
  BY DEF LInv
<1> QED
  BY <1>1, Life, PTL

\* A server that serves has all it needs, whatever the configuration file
\* says (load_config, Server::init).
THEOREM ReadyCorrect == Spec => []ServeReady
<1>1. LInv => ServeReady
  <2> SUFFICES ASSUME LInv, pc = "serve" PROVE ServeReady
    BY DEF ServeReady
  <2>1. /\ Required /\ next = Len(plugins) + 1 /\ Len(plugins) \in Nat
        /\ Registered \subseteq Plugin
    BY DEF LInv, PostInv, TypeOK, Registered
  <2>2. /\ {conf.com_actor, conf.com_notify, conf.fault_manager} \subseteq Registered
        /\ "actor" \in Caps(conf.com_actor) /\ "extern" \in Caps(conf.com_notify)
        /\ "manager" \in Caps(conf.fault_manager)
    BY <2>1 DEF Required, LInv, ConfInv
  <2>3. \A q \in Registered : \E k \in 1..(next - 1) : plugins[k] = q
    BY <2>1 DEF Registered
  <2>4. conf.com_actor = "mosquitto" => "mosquitto" \in held /\ callback
    BY <2>2, <2>3 DEF LInv, PostInv
  <2>5. conf.fault_manager = "transcribe" => nested \in Registered /\ "manager" \in Caps(nested)
    BY <2>2, <2>3 DEF LInv, PostInv
  <2>6. Decider(conf.fault_manager) \in Registered /\ "manager" \in Caps(Decider(conf.fault_manager))
    BY <2>2, <2>5 DEF Decider
  <2>7. Decider(conf.fault_manager) # "transcribe"
    BY DEF LInv, PostInv
  <2>8. Decider(conf.fault_manager) \in {"random", "replay"}
    BY <2>1, <2>6, <2>7, CapsFacts
  <2>9. Registered \subseteq libraries
    BY DEF LInv, HeldInv
  <2> QED
    BY <2>2, <2>4, <2>6, <2>8, <2>9 DEF ServeReady
<1> QED
  BY <1>1, Life, PTL

-----------------------------------------------------------------------------
(* The roles that main prints.                                             *)

\* Nobody has a role before main gives them out; then whoever has one of
\* the first three is who the configuration points to.  The configured
\* manager has its role until transcribe's hook takes it away from
\* transcribe and gives it to the manager behind.
RoleInv ==
    /\ pc \in {"open", "read"} => \A p \in Plugin : roles[p] = {}
    /\ pc \in {"post", "nodes", "serve"} =>
          /\ \A p \in Plugin :
                /\ "actor" \in roles[p] <=> p = conf.com_actor
                /\ "extern" \in roles[p] <=> p = conf.com_notify
                /\ "logger" \in roles[p] <=> p = conf.logger
          /\ conf.fault_manager \in Plugin \ {"transcribe"} =>
                "manager" \in roles[conf.fault_manager]
          /\ "manager" \in roles["transcribe"] => "transcribe" \in Registered
          /\ \A k \in 1..(next - 1) : plugins[k] = "transcribe" =>
                /\ "manager" \notin roles["transcribe"]
                /\ nested # "transcribe" => "manager" \in roles[nested]

\* What add_role does to one plugin and one role.
LEMMA AddRoleMember ==
    ASSUME NEW rs, RolesOK(rs), NEW p \in Plugin \cup {NULL}, NEW r,
           NEW q \in Plugin, NEW s
    PROVE  s \in AddRole(rs, p, r)[q] <=>
              s \in rs[q] \/ (s = r /\ q = p /\ r \in Caps(p))
<1>1. CASE p # NULL /\ r \in Caps(p)
  <2>1. AddRole(rs, p, r) = [rs EXCEPT ![p] = @ \cup {r}]
    BY <1>1 DEF AddRole
  <2>2. AddRole(rs, p, r)[q] = IF q = p THEN rs[p] \cup {r} ELSE rs[q]
    BY <1>1, <2>1 DEF RolesOK
  <2> QED
    BY <1>1, <2>2
<1>2. CASE ~(p # NULL /\ r \in Caps(p))
  BY <1>2, NullAssumption DEF AddRole
<1> QED
  BY <1>1, <1>2

\* main gives the roles to those the configuration points to.
LEMMA RoleEndOfFile ==
    ASSUME LInv, RoleInv, EndOfFile
    PROVE  RoleInv'
<1>1. /\ pc = "read" /\ pc' = "post" /\ next = 1
      /\ UNCHANGED <<plugins, conf, next, nested>>
      /\ RolesOK(roles) /\ \A p \in Plugin : roles[p] = {}
      /\ conf.com_actor \in Plugin \cup {NULL} /\ conf.com_notify \in Plugin \cup {NULL}
      /\ conf.logger \in Plugin \cup {NULL} /\ conf.fault_manager \in Plugin \cup {NULL}
  BY DEF EndOfFile, confVars, LInv, PostInv, RolesWithinCaps, RolesOK, TypeOK, RoleInv
<1>2. PICK r1 : r1 = AddRole(roles, conf.com_actor, "actor")
  OBVIOUS
<1>3. PICK r2 : r2 = AddRole(r1, conf.com_notify, "extern")
  OBVIOUS
<1>4. PICK r3 : r3 = AddRole(r2, conf.logger, "logger")
  OBVIOUS
<1>5. RolesOK(r1)
  BY <1>1, <1>2, AddRoleOK
<1>6. RolesOK(r2)
  BY <1>1, <1>3, <1>5, AddRoleOK
<1>7. RolesOK(r3)
  BY <1>1, <1>4, <1>6, AddRoleOK
<1>8. roles' = AddRole(r3, conf.fault_manager, "manager")
  BY <1>2, <1>3, <1>4 DEF EndOfFile
<1>9. ASSUME NEW q \in Plugin, NEW s
      PROVE  s \in roles'[q] <=>
                \/ s = "actor" /\ q = conf.com_actor /\ "actor" \in Caps(q)
                \/ s = "extern" /\ q = conf.com_notify /\ "extern" \in Caps(q)
                \/ s = "logger" /\ q = conf.logger /\ "logger" \in Caps(q)
                \/ s = "manager" /\ q = conf.fault_manager /\ "manager" \in Caps(q)
  <2>1. s \in r1[q] <=> s = "actor" /\ q = conf.com_actor /\ "actor" \in Caps(q)
    <3>1. /\ RolesOK(roles) /\ conf.com_actor \in Plugin \cup {NULL} /\ s \notin roles[q]
      BY <1>1
    <3>2. s \in r1[q] <=>
             s \in roles[q] \/ (s = "actor" /\ q = conf.com_actor /\ "actor" \in Caps(conf.com_actor))
      BY <1>2, <3>1, AddRoleMember
    <3> QED BY <3>1, <3>2
  <2>2. s \in r2[q] <=> s \in r1[q] \/ (s = "extern" /\ q = conf.com_notify /\ "extern" \in Caps(q))
    <3>1. conf.com_notify \in Plugin \cup {NULL}
      BY <1>1
    <3> QED BY <1>3, <1>5, <3>1, AddRoleMember
  <2>3. s \in r3[q] <=> s \in r2[q] \/ (s = "logger" /\ q = conf.logger /\ "logger" \in Caps(q))
    <3>1. conf.logger \in Plugin \cup {NULL}
      BY <1>1
    <3> QED BY <1>4, <1>6, <3>1, AddRoleMember
  <2>4. s \in roles'[q] <=> s \in r3[q] \/ (s = "manager" /\ q = conf.fault_manager /\ "manager" \in Caps(q))
    <3>1. conf.fault_manager \in Plugin \cup {NULL}
      BY <1>1
    <3>2. PICK r4 : r4 = AddRole(r3, conf.fault_manager, "manager")
      OBVIOUS
    <3>3. s \in r4[q] <=>
             \/ s \in r3[q]
             \/ s = "manager" /\ q = conf.fault_manager /\ "manager" \in Caps(conf.fault_manager)
      BY <1>7, <3>1, <3>2, AddRoleMember
    <3> QED BY <1>8, <3>2, <3>3
  <2> QED BY <2>1, <2>2, <2>3, <2>4
<1>10. /\ \A q \in Plugin : q = conf.com_actor => "actor" \in Caps(q)
       /\ \A q \in Plugin : q = conf.com_notify => "extern" \in Caps(q)
       /\ \A q \in Plugin : q = conf.logger => "logger" \in Caps(q)
       /\ \A q \in Plugin : q = conf.fault_manager => q \in Registered /\ "manager" \in Caps(q)
  BY NullAssumption DEF LInv, ConfInv
<1>11. \A q \in Plugin : /\ "actor" \in roles'[q] <=> q = conf.com_actor
                         /\ "extern" \in roles'[q] <=> q = conf.com_notify
                         /\ "logger" \in roles'[q] <=> q = conf.logger
                         /\ "manager" \in roles'[q] <=> q = conf.fault_manager
  <2> TAKE q \in Plugin
  <2>1. "actor" \in roles'[q] <=> q = conf.com_actor
    BY <1>9, <1>10
  <2>2. "extern" \in roles'[q] <=> q = conf.com_notify
    BY <1>9, <1>10
  <2>3. "logger" \in roles'[q] <=> q = conf.logger
    BY <1>9, <1>10
  <2>4. "manager" \in roles'[q] <=> q = conf.fault_manager
    BY <1>9, <1>10
  <2> QED BY <2>1, <2>2, <2>3, <2>4
<1>12. Registered' = Registered /\ "transcribe" \in Plugin
  BY <1>1 DEF Registered, Plugin
<1> QED
  BY <1>1, <1>10, <1>11, <1>12 DEF RoleInv

\* transcribe's hook moves the role of the manager.
LEMMA RolePostInit ==
    ASSUME LInv, RoleInv, PostInit
    PROVE  RoleInv'
<1>1. /\ pc = "post" /\ next' = next + 1 /\ UNCHANGED <<plugins, conf>>
      /\ next \in Nat /\ next <= Len(plugins) /\ Registered' = Registered
      /\ RolesOK(roles)
  BY DEF PostInit, confVars, LInv, TypeOK, RolesWithinCaps, RolesOK, Registered
<1>2. CASE plugins[next] # "transcribe"
  <2>1. UNCHANGED <<pc, roles, nested>>
    BY <1>2 DEF PostInit
  <2>2. \A k \in 1..(next' - 1) : plugins'[k] = "transcribe" => k \in 1..(next - 1)
    BY <1>1, <1>2
  <2> QED
    BY <1>1, <2>1, <2>2 DEF RoleInv
<1>3. CASE plugins[next] = "transcribe"
  <2>1. PostTranscribe
    BY <1>3 DEF PostInit
  <2>2. CASE pc' # "post"
    <3>1. pc' \in {"failed", "abort"}
      BY <1>1, <2>1, <2>2 DEF PostTranscribe
    <3> QED BY <3>1 DEF RoleInv
  <2>3. CASE pc' = "post"
    <3>1. /\ fault_name \in Registered /\ "manager" \in Caps(fault_name)
          /\ roles' = SetRole(AddRole(roles, fault_name, "manager"), "transcribe", "other")
          /\ nested' = fault_name
      BY <2>1, <2>3 DEF PostTranscribe
    <3>2. fault_name \in Plugin /\ "transcribe" \in Plugin /\ "transcribe" \in Registered
      BY <1>1, <1>3, <3>1 DEF Registered, LInv, TypeOK, Plugin
    <3>3. PICK rs : rs = AddRole(roles, fault_name, "manager")
      OBVIOUS
    <3>4. RolesOK(rs)
      BY <1>1, <3>2, <3>3, AddRoleOK
    <3>5. roles' = [rs EXCEPT !["transcribe"] = {"other"}]
      BY <3>1, <3>2, <3>3, CapsFacts, NullAssumption DEF SetRole
    <3>6. /\ roles'["transcribe"] = {"other"}
          /\ \A q \in Plugin \ {"transcribe"} : roles'[q] = rs[q]
      BY <3>2, <3>4, <3>5 DEF RolesOK
    <3>7. \A q \in Plugin \ {"transcribe"} : \A s :
             s \in roles'[q] <=> s \in roles[q] \/ (s = "manager" /\ q = fault_name)
      BY <1>1, <3>1, <3>2, <3>3, <3>6, AddRoleMember
    <3>8. /\ conf.com_actor # "transcribe" /\ conf.com_notify # "transcribe"
          /\ conf.logger # "transcribe"
      <4>1. Caps("transcribe") = {"manager", "other"}
        BY DEF Caps
      <4> QED BY <4>1, <3>2, NullAssumption DEF LInv, ConfInv
    <3>9. \A p \in Plugin : /\ "actor" \in roles'[p] <=> p = conf.com_actor
                            /\ "extern" \in roles'[p] <=> p = conf.com_notify
                            /\ "logger" \in roles'[p] <=> p = conf.logger
      <4> TAKE p \in Plugin
      <4>1. CASE p = "transcribe"
        BY <4>1, <3>6, <3>8
      <4>2. CASE p # "transcribe"
        <5>1. /\ "actor" \in roles[p] <=> p = conf.com_actor
              /\ "extern" \in roles[p] <=> p = conf.com_notify
              /\ "logger" \in roles[p] <=> p = conf.logger
          BY <1>1 DEF RoleInv
        <5> QED BY <4>2, <5>1, <3>7
      <4> QED BY <4>1, <4>2
    <3>10. conf.fault_manager \in Plugin \ {"transcribe"} =>
              "manager" \in roles'[conf.fault_manager]
      BY <1>1, <3>7 DEF RoleInv
    <3>11. /\ "manager" \notin roles'["transcribe"]
           /\ nested' # "transcribe" => "manager" \in roles'[nested']
      BY <3>1, <3>2, <3>6, <3>7
    <3> QED
      BY <1>1, <2>3, <3>9, <3>10, <3>11 DEF RoleInv
  <2> QED BY <2>2, <2>3
<1> QED BY <1>2, <1>3

LEMMA RoleStep == LInv /\ RoleInv /\ [Next]_vars => RoleInv'
<1> SUFFICES ASSUME LInv, RoleInv, [Next]_vars PROVE RoleInv'
  OBVIOUS
<1>1. CASE ReadLine
  <2>1. PICK line \in Lines :
          \/ ReadOther(line) \/ ReadLib(line) \/ ReadMisplaced(line)
          \/ SetConfig(line) \/ SetTic(line)
    BY <1>1 DEF ReadLine
  <2>2. pc = "read" /\ pc' \in {"read", "failed", "abort"}
    BY <1>1, <2>1 DEF ReadLine, ReadOther, ReadLib, ReadMisplaced, SetConfig, SetTic
  <2>3. roles' = roles \/ \E p : roles' = [roles EXCEPT ![p] = {}]
    BY <2>1 DEF ReadOther, ReadLib, ReadMisplaced, SetConfig, SetTic, pmVars, LoadNew,
       LoadAgain, LoadFails, Register
  <2>4. \A p \in Plugin : roles'[p] = {}
    BY <2>2, <2>3 DEF RoleInv, LInv, TypeOK
  <2> QED BY <2>2, <2>4 DEF RoleInv
<1>2. CASE EndOfFile
  BY <1>2, RoleEndOfFile
<1>3. CASE PostInit
  BY <1>3, RolePostInit
<1>4. CASE CheckRequired \/ GetNodes
  <2>1. /\ UNCHANGED <<plugins, roles, conf, next, nested>>
        /\ pc \in {"post", "nodes"} /\ pc' \in {"nodes", "serve", "failed", "abort"}
    BY <1>4 DEF CheckRequired, GetNodes, pmVars, confVars
  <2>2. Registered' = Registered
    BY <2>1 DEF Registered
  <2> QED BY <2>1, <2>2 DEF RoleInv
<1>5. CASE EndServe \/ CleanupPlugin \/ EndOfMain \/ UseAfterClose
  <2>1. pc' \in {"cleanup", "end", "abort"}
    BY <1>5 DEF EndServe, CleanupPlugin, EndOfMain, UseAfterClose
  <2> QED BY <2>1 DEF RoleInv
<1>6. CASE OpenFile
  <2>1. pc = "open" /\ pc' \in {"read", "failed"} /\ roles' = roles
    BY <1>6 DEF OpenFile, pmVars
  <2> QED BY <2>1 DEF RoleInv
<1>7. CASE NetMessage \/ Stopped \/ UNCHANGED vars
  <2>1. UNCHANGED <<pc, plugins, roles, conf, next, nested>>
    BY <1>7 DEF NetMessage, Stopped, vars, pmVars, confVars
  <2>2. Registered' = Registered
    BY <2>1 DEF Registered
  <2> QED BY <2>1, <2>2 DEF RoleInv
<1> QED
  BY <1>1, <1>2, <1>3, <1>4, <1>5, <1>6, <1>7 DEF Next, Main

\* The list of roles that main prints is true when the server serves: who is
\* listed as communication or logger is used as such, and as fault manager is
\* listed the one that decides, never the transcribe in front of it, in
\* whatever order the hooks were called (add_role and set_role of
\* plugin_internal.cpp, main and post_init of transcribe).
THEOREM RoleListCorrect == Spec => []RolesFaithful
<1>1. Init => RoleInv
  BY DEF Init, PmInit, RoleInv
<1>2. LInv /\ RoleInv => RolesFaithful
  <2> SUFFICES ASSUME LInv, RoleInv, pc = "serve" PROVE RolesFaithful
    BY DEF RolesFaithful
  <2>1. /\ next = Len(plugins) + 1 /\ Len(plugins) \in Nat /\ Registered \subseteq Plugin
        /\ conf.fault_manager \in Registered /\ Decider(conf.fault_manager) # "transcribe"
    BY DEF LInv, PostInv, ConfInv, Required, TypeOK, Registered
  <2>2. "transcribe" \in Registered =>
           /\ "manager" \notin roles["transcribe"]
           /\ nested # "transcribe" => "manager" \in roles[nested]
    BY <2>1 DEF RoleInv, Registered
  <2>3. "manager" \notin roles["transcribe"]
    BY <2>2 DEF RoleInv
  <2>4. "manager" \in roles[Decider(conf.fault_manager)]
    BY <2>1, <2>2 DEF RoleInv, Decider
  <2>5. \A p \in Registered :
           /\ "actor" \in roles[p] <=> p = conf.com_actor
           /\ "extern" \in roles[p] <=> p = conf.com_notify
           /\ "logger" \in roles[p] <=> p = conf.logger
    BY <2>1 DEF RoleInv
  <2> QED BY <2>3, <2>4, <2>5 DEF RolesFaithful
<1> QED
  BY <1>1, <1>2, RoleStep, Life, PTL DEF Spec
=============================================================================
