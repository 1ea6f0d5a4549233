---- MODULE AuraServerProofs ----
(* The server process for any plugins, any devices and names, any numbers of   *)
(* instructions and any scripts: the list of registered functions, the tables  *)
(* of objects, and the functions of the nodes that scripts open.               *)
EXTENDS AuraServer, DataLemmas

------------------------------------------------------------------------------
(* The list of functions.                                                      *)

\* A function that main registers comes later than the ones before.
Registered(p) ==
    CASE p = "protector" -> {"aura_hooks"}
      [] p = "getter" -> {"aura_hooks", "aura_setvmprot"}
      [] p = "loader" -> {"aura_hooks", "aura_setvmprot", "aura_getvmprot"}
      [] OTHER -> Functions0

Chain ==
    /\ registered \in Seq(Functions0) /\ Len(registered) > 0
    /\ base = registered[1] /\ end = registered[Len(registered)]
    /\ hnext[end] = Null
    /\ \A k \in 1..Len(registered) - 1 : hnext[registered[k]] = registered[k + 1]
    /\ \A j, k \in 1..Len(registered) : registered[j] = registered[k] => j = k

HookInv ==
    /\ DOMAIN hnext = Functions0
    /\ phase = "start" => hnext = [f \in Functions0 |-> Null]
    /\ phase # "start" => Chain
    /\ phase # "start" => \A k \in 1..Len(registered) : registered[k] \in Registered(phase)

Booting == {"start", "protector", "getter", "loader"}

\* Only a script can be held.
Held ==
    /\ busy \in {"nothing", "lua", "discovery", "reply"}
    /\ busy # "nothing" => phase \in {"file", "shell"}

\* What scripts and init.lua do to the phase, and that they register nothing.
LEMMA ScriptsRegisterNothing ==
    ASSUME Held, InitLoads \/ InitEnds \/ Script \/ Answers
    PROVE  /\ phase \notin Booting /\ phase' \notin Booting
           /\ UNCHANGED <<base, end, hnext, registered>>
<1>1. /\ Following \notin Booting
      /\ Raise /\ phase \notin Booting => phase' \notin Booting
  BY DEF Following, Raise, Booting
<1>2. \A p : LoadPlugin(p) => phase' = phase \/ phase' = "dead"
  BY DEF LoadPlugin
<1>3. CASE InitLoads
  BY <1>2, <1>3 DEF InitLoads, Booting, hookVars
<1>4. CASE InitEnds
  BY <1>1, <1>4 DEF InitEnds, Booting, hookVars
<1>5. CASE Script
  <2>1. Op => phase \in {"file", "shell"}
    BY DEF Op, Running
  <2>2. CASE ScriptLoads
    BY <1>2, <2>1, <2>2 DEF ScriptLoads, Booting, hookVars
  <2>3. CASE ScriptOpens
    BY <1>1, <2>1, <2>3 DEF ScriptOpens, Booting, hookVars
  <2>4. CASE ScriptRediscovers
    BY <2>1, <2>4 DEF ScriptRediscovers, Booting, hookVars
  <2>5. CASE ScriptCalls
    BY <2>1, <2>5 DEF ScriptCalls, Booting, hookVars
  <2>6. CASE ScriptSetsProt
    BY <2>1, <2>6 DEF ScriptSetsProt, Booting, hookVars
  <2>7. CASE ScriptSpins
    BY <2>1, <2>7 DEF ScriptSpins, Booting, hookVars
  <2>8. CASE ScriptEnds
    BY <1>1, <2>8 DEF ScriptEnds, Running, Booting, hookVars
  <2>9. CASE Runaway
    BY <1>1, <2>9 DEF Runaway, Held, Booting, hookVars
  <2>10. QED
    BY <1>5, <2>2, <2>3, <2>4, <2>5, <2>6, <2>7, <2>8, <2>9 DEF Script
<1>6. CASE Discovered
  <2>1. phase \notin Booting
    BY <1>6 DEF Discovered, Held, Booting
  <2>2. phase' = phase \/ Raise
    BY <1>6 DEF Discovered
  <2>3. QED
    BY <1>1, <1>6, <2>1, <2>2 DEF Discovered, hookVars
<1>7. CASE Replied
  BY <1>7 DEF Replied, Held, Booting, hookVars
<1>8. QED
  BY <1>3, <1>4, <1>5, <1>6, <1>7 DEF Answers

\* Scripts run one after the other: one that is held stays where it is.
LEMMA HeldStep ==
    ASSUME Held, [ServerNext]_serverVars
    PROVE  Held'
<1>1. CASE FuncInit
  BY <1>1 DEF FuncInit, Held, runVars
<1>2. CASE ProtectorInit
  BY <1>2 DEF ProtectorInit, Held, runVars
<1>3. CASE ProtectorRest
  BY <1>3 DEF ProtectorRest, Held, runVars
<1>4. CASE LoaderInit
  BY <1>4 DEF LoaderInit, Held, runVars
<1>5. CASE InitLoads
  BY <1>5 DEF InitLoads, Held, runVars
<1>6. CASE InitEnds
  BY <1>6 DEF InitEnds, Held, runVars
<1>7. CASE ScriptLoads \/ ScriptOpens \/ ScriptRediscovers \/ ScriptCalls \/ ScriptSetsProt
  BY <1>7 DEF ScriptLoads, ScriptOpens, ScriptRediscovers, ScriptCalls, ScriptSetsProt,
              Op, Running, Held
<1>8. CASE ScriptSpins
  BY <1>8 DEF ScriptSpins, Op, Running, Held
<1>9. CASE ScriptEnds
  BY <1>9 DEF ScriptEnds, Running, Held, runVars
<1>10. CASE Runaway
  BY <1>10 DEF Runaway, Held
<1>11. CASE Discovered \/ Replied
  BY <1>11 DEF Discovered, Replied, Held
<1>12. CASE UNCHANGED serverVars
  BY <1>12 DEF serverVars, runVars, Held
<1>13. QED
  BY <1>1, <1>2, <1>3, <1>4, <1>5, <1>6, <1>7, <1>8, <1>9, <1>10, <1>11, <1>12
  DEF ServerNext, Boot, Script, Answers

\* aura_func_reg of a function that is not in the list yet.
LEMMA FuncRegStep ==
    ASSUME Chain, DOMAIN hnext = Functions0, NEW f \in Functions0, FuncReg(f),
           \A k \in 1..Len(registered) : registered[k] # f
    PROVE  /\ Chain' /\ DOMAIN hnext' = Functions0
           /\ \A k \in 1..Len(registered') :
                registered'[k] = f \/ \E j \in 1..Len(registered) : registered'[k] = registered[j]
<1> DEFINE n == Len(registered)
<1>1. /\ hnext' = [hnext EXCEPT ![end] = f, ![f] = Null]
      /\ end' = f /\ base' = base /\ registered' = Append(registered, f)
  BY DEF FuncReg
<1>2. registered \in Seq(Functions0) /\ n \in Nat /\ n > 0
  BY DEF Chain
<1>3. /\ registered' \in Seq(Functions0) /\ Len(registered') = n + 1
      /\ registered'[n + 1] = f
      /\ \A k \in 1..n : registered'[k] = registered[k]
  BY <1>1, <1>2
<1>4. \A k \in 1..n : registered[k] \in Functions0
  BY <1>2
<1>5. end = registered[n] /\ end \in Functions0 /\ end # f
  BY <1>2, <1>4 DEF Chain
<1>6. /\ hnext'[f] = Null /\ hnext'[end] = f /\ DOMAIN hnext' = Functions0
      /\ \A g \in Functions0 : g # end /\ g # f => hnext'[g] = hnext[g]
  BY <1>1, <1>5
<1>7. ASSUME NEW k \in 1..Len(registered') - 1
      PROVE  hnext'[registered'[k]] = registered'[k + 1]
  <2>1. CASE k = n
    BY <1>2, <1>3, <1>5, <1>6, <2>1
  <2>2. CASE k # n
    <3>1. k \in 1..n - 1 /\ k \in 1..n /\ k + 1 \in 1..n /\ n \in 1..n
      BY <1>2, <1>3, <2>2
    <3>2. registered[k] # end /\ registered[k] # f
      BY <1>5, <2>2, <3>1 DEF Chain
    <3>3. hnext'[registered[k]] = hnext[registered[k]]
      BY <1>4, <1>6, <3>1, <3>2
    <3>4. hnext[registered[k]] = registered[k + 1]
      BY <3>1 DEF Chain
    <3>5. QED
      BY <1>3, <3>1, <3>3, <3>4
  <2>3. QED
    BY <2>1, <2>2
<1>8. ASSUME NEW j \in 1..Len(registered'), NEW k \in 1..Len(registered'),
             registered'[j] = registered'[k]
      PROVE  j = k
  <2>1. CASE j \in 1..n /\ k \in 1..n
    BY <1>3, <1>8, <2>1 DEF Chain
  <2>2. CASE j = n + 1 /\ k \in 1..n
    BY <1>3, <1>8, <2>2
  <2>3. CASE k = n + 1 /\ j \in 1..n
    BY <1>3, <1>8, <2>3
  <2>4. CASE j = n + 1 /\ k = n + 1
    BY <2>4
  <2>5. QED
    BY <1>2, <1>3, <2>1, <2>2, <2>3, <2>4
<1>9. base' = registered'[1] /\ end' = registered'[Len(registered')] /\ Len(registered') > 0
  <2>1. base = registered[1]
    BY DEF Chain
  <2>2. QED
    BY <1>1, <1>2, <1>3, <2>1
<1>10. hnext'[end'] = Null
  BY <1>1, <1>6
<1>11. Chain'
  BY <1>3, <1>7, <1>8, <1>9, <1>10 DEF Chain
<1>12. \A k \in 1..Len(registered') :
          registered'[k] = f \/ \E j \in 1..Len(registered) : registered'[k] = registered[j]
  BY <1>2, <1>3
<1>13. QED
  BY <1>6, <1>11, <1>12

\* Main registers one function per phase and none twice.
LEMMA HookStep ==
    ASSUME Held, HookInv, [ServerNext]_serverVars
    PROVE  HookInv'
<1>1. CASE FuncInit
  <2>1. /\ phase = "start" /\ phase' = "protector" /\ hnext' = hnext
        /\ base' = "aura_hooks" /\ end' = "aura_hooks" /\ registered' = <<"aura_hooks">>
    BY <1>1 DEF FuncInit
  <2>2. /\ registered' \in Seq(Functions0) /\ Len(registered') = 1
        /\ registered'[1] = "aura_hooks"
    BY <2>1 DEF Functions0
  <2>3. hnext'[end'] = Null
    BY <2>1 DEF HookInv, Functions0
  <2>4. Chain'
    BY <2>1, <2>2, <2>3 DEF Chain
  <2>5. \A k \in 1..Len(registered') : registered'[k] \in Registered(phase')
    BY <2>1, <2>2 DEF Registered
  <2>6. QED
    BY <2>1, <2>4, <2>5 DEF HookInv
<1>2. ASSUME NEW f \in Functions0, FuncReg(f), phase # "start", phase' # "start",
             f \notin Registered(phase), f \in Registered(phase'),
             Registered(phase) \subseteq Registered(phase')
      PROVE  HookInv'
  <2>1. /\ Chain /\ DOMAIN hnext = Functions0
        /\ \A k \in 1..Len(registered) : registered[k] \in Registered(phase)
    BY <1>2 DEF HookInv
  <2>2. /\ Chain' /\ DOMAIN hnext' = Functions0
        /\ \A k \in 1..Len(registered') :
             registered'[k] = f \/ \E j \in 1..Len(registered) : registered'[k] = registered[j]
    BY <1>2, <2>1, FuncRegStep
  <2>3. \A k \in 1..Len(registered') : registered'[k] \in Registered(phase')
    BY <1>2, <2>1, <2>2
  <2>4. QED
    BY <1>2, <2>2, <2>3 DEF HookInv
<1>3. CASE ProtectorInit
  BY <1>2, <1>3 DEF ProtectorInit, Registered, Functions0
<1>4. CASE ProtectorRest
  BY <1>2, <1>4 DEF ProtectorRest, Registered, Functions0
<1>5. CASE LoaderInit
  BY <1>2, <1>5 DEF LoaderInit, Registered, Functions0
<1>6. CASE InitLoads \/ InitEnds \/ Script \/ Answers
  <2>1. /\ phase \notin Booting /\ phase' \notin Booting
        /\ UNCHANGED <<base, end, hnext, registered>>
    BY <1>6, ScriptsRegisterNothing
  <2>2. Registered(phase) = Functions0 /\ Registered(phase') = Functions0
    BY <2>1 DEF Registered, Booting
  <2>3. QED
    BY <2>1, <2>2 DEF HookInv, Chain, Booting
<1>7. CASE UNCHANGED serverVars
  BY <1>7 DEF serverVars, hookVars, HookInv, Chain, Registered
<1>8. QED
  BY <1>1, <1>3, <1>4, <1>5, <1>6, <1>7 DEF ServerNext, Boot

\* aura_hooks lists every function registered so far, each once and in order, and
\* comes to an end (hooks.c 52-84).
THEOREM HelpCorrect == ServerSpec => []HelpComplete
<1>1. ServerInit => Held /\ HookInv
  BY DEF ServerInit, Held, HookInv
<1>2. Held /\ HookInv /\ [ServerNext]_serverVars => Held' /\ HookInv'
  BY HeldStep, HookStep
<1>3. HookInv => HelpComplete
  BY DEF HookInv, Chain, HelpComplete
<1>4. QED
  BY <1>1, <1>2, <1>3, PTL DEF ServerSpec

------------------------------------------------------------------------------
(* Types.                                                                      *)

NodeNames == Names \cup {"hostname", "packnumbers", "unpacknumbers"}

\* Instances and nodes.
NodeInv ==
    /\ Typed(insts) /\ Typed(nodes)
    /\ Len(nodes) = Len(insts) /\ Len(insts) <= MaxInsts

\* Names a device may announce.
LEMMA BoundNames ==
    ASSUME NEW dev, dev \in Devices \/ dev = NullObjects
    PROVE  Bound(dev) \subseteq NodeNames
<1>1. CASE dev \in Devices
  <2>1. dev \in Seq([name : Names, method : BOOLEAN])
    BY <1>1, NodesAssumption
  <2>2. \A j \in 1..Len(dev) : dev[j] \in [name : Names, method : BOOLEAN]
    BY <2>1, ElementOfSeq
  <2>3. QED
    BY <2>2 DEF Bound, NodeNames
<1>2. CASE dev = NullObjects
  <2>1. Len(NullObjects) = 3
    BY DEF NullObjects
  <2>2. /\ NullObjects[1].name = "hostname" /\ NullObjects[2].name = "packnumbers"
        /\ NullObjects[3].name = "unpacknumbers"
    BY DEF NullObjects, Method
  <2>3. \A j \in 1..3 : NullObjects[j].name \in NodeNames
    BY <2>2 DEF NodeNames
  <2>4. QED
    BY <1>2, <2>1, <2>3 DEF Bound
<1>3. QED
  BY <1>1, <1>2

\* Opening a node adds one instance and one node.
LEMMA OpenNodeStep ==
    ASSUME NodeInv, NEW tr, NEW dev, OpenNode(tr, dev)
    PROVE  NodeInv'
<1>1. /\ Typed(insts) /\ Typed(nodes)
      /\ Len(nodes) = Len(insts) /\ Len(insts) <= MaxInsts
  BY DEF NodeInv
<1>2. /\ Len(insts) + 1 <= MaxInsts
      /\ \E r : insts' = Append(insts, r)
      /\ \E f : nodes' = Append(nodes, f)
  BY DEF OpenNode
<1>3. PICK r, f : insts' = Append(insts, r) /\ nodes' = Append(nodes, f)
  BY <1>2
<1>4. Typed(insts') /\ Len(insts) \in Nat /\ Len(insts') = Len(insts) + 1
  BY <1>1, <1>3, AppendAny
<1>5. Typed(nodes') /\ Len(nodes) \in Nat /\ Len(nodes') = Len(nodes) + 1
  BY <1>1, <1>3, AppendAny
<1>6. QED
  BY <1>1, <1>2, <1>4, <1>5 DEF NodeInv

\* A second discovery leaves the functions of the node as they are.
LEMMA RediscoverStep ==
    ASSUME NodeInv, NEW k \in 1..Len(insts), Rediscover(k)
    PROVE  NodeInv'
<1>1. \E r : insts' = [insts EXCEPT ![k] = r]
  BY DEF Rediscover
<1>2. PICK r : insts' = [insts EXCEPT ![k] = r]
  BY <1>1
<1>3. Typed(insts') /\ Len(insts') = Len(insts)
  BY <1>2, ExceptAny DEF NodeInv
<1>4. nodes' = nodes
  BY DEF Rediscover
<1>5. QED
  BY <1>3, <1>4 DEF NodeInv

\* Everything but the nodes.
ProcessInv ==
    /\ phase \in {"start", "protector", "getter", "loader", "init", "file", "shell", "loop", "dead"}
    /\ {base, end} \subseteq Functions0 \cup {Null}
    /\ registered \in Seq(Functions0)
    /\ count \in Int /\ armed = count
    /\ Held
    /\ loaded \subseteq Present
    /\ transports \subseteq loaded \cap {"null", "serial"}
    /\ (transports # {} => "urpc" \in loaded)
    /\ ops \in 0..MaxOps

\* Plugins: what a load does to the two tables.
LEMMA LoadStep ==
    ASSUME ProcessInv, NEW p, LoadPlugin(p)
    PROVE  /\ loaded' \subseteq Present
           /\ transports' \subseteq loaded' \cap {"null", "serial"}
           /\ (transports' # {} => "urpc" \in loaded')
           /\ phase' = phase \/ phase' = "dead"
<1>1. CASE p \notin Present
  BY <1>1 DEF LoadPlugin, ProcessInv
<1>2. CASE p \in Present
  BY <1>2 DEF LoadPlugin, ProcessInv
<1>3. QED
  BY <1>1, <1>2

\* Every step of the process.
LEMMA ServerStep == ProcessInv /\ NodeInv /\ [ServerNext]_serverVars => ProcessInv' /\ NodeInv'
<1> SUFFICES ASSUME ProcessInv, NodeInv, [ServerNext]_serverVars PROVE ProcessInv' /\ NodeInv'
  OBVIOUS
<1>1. ASSUME UNCHANGED nodeVars PROVE NodeInv'
  BY <1>1 DEF nodeVars, NodeInv
<1>2. /\ Following \in {"file", "shell", "loop"}
      /\ Raise => phase' \in {"file", "shell", "loop"}
  BY DEF Following, Raise
<1>3. Op => ops' \in 0..MaxOps
  BY ServerAssumption DEF Op, ProcessInv
<1>0. Held'
  BY HeldStep DEF ProcessInv
<1>4. \A f \in Functions0 : FuncReg(f) =>
          registered' \in Seq(Functions0) /\ {base', end'} \subseteq Functions0 \cup {Null}
  BY DEF FuncReg, ProcessInv
<1>5. \A n \in Int : Setup(n) => count' \in Int /\ armed' = count'
  BY DEF Setup
<1>6. CASE FuncInit
  <2>1. <<"aura_hooks">> \in Seq(Functions0) /\ "aura_hooks" \in Functions0
    BY DEF Functions0
  <2>2. QED
    BY <1>0, <1>1, <1>6, <2>1 DEF FuncInit, ProcessInv, protVars, pluginVars, runVars
<1>7. CASE ProtectorInit
  <2>1. "aura_setvmprot" \in Functions0 /\ Default \in Int
    BY ServerAssumption DEF Functions0
  <2>2. /\ registered' \in Seq(Functions0) /\ {base', end'} \subseteq Functions0 \cup {Null}
        /\ count' \in Int /\ armed' = count'
    BY <1>4, <1>5, <1>7, <2>1 DEF ProtectorInit
  <2>3. QED
    BY <1>0, <1>1, <1>7, <2>2 DEF ProtectorInit, ProcessInv, pluginVars, runVars
<1>8. CASE ProtectorRest
  <2>1. registered' \in Seq(Functions0) /\ {base', end'} \subseteq Functions0 \cup {Null}
    BY <1>4, <1>8 DEF ProtectorRest, Functions0
  <2>2. QED
    BY <1>0, <1>1, <1>8, <2>1 DEF ProtectorRest, ProcessInv, protVars, pluginVars, runVars
<1>9. CASE LoaderInit
  <2>1. registered' \in Seq(Functions0) /\ {base', end'} \subseteq Functions0 \cup {Null}
    BY <1>4, <1>9 DEF LoaderInit, Functions0
  <2>2. QED
    BY <1>0, <1>1, <1>9, <2>1 DEF LoaderInit, ProcessInv, protVars, pluginVars, runVars
<1>10. CASE InitLoads
  BY <1>0, <1>1, <1>10, LoadStep DEF InitLoads, ProcessInv, hookVars, protVars, runVars
<1>11. CASE InitEnds
  BY <1>0, <1>1, <1>2, <1>11 DEF InitEnds, ProcessInv, hookVars, protVars, runVars
<1>12. CASE ScriptLoads
  <2>1. PICK p \in Present : LoadPlugin(p)
    BY <1>12 DEF ScriptLoads
  <2>2. QED
    BY <1>0, <1>1, <1>3, <1>12, <2>1, LoadStep DEF ScriptLoads, ProcessInv, hookVars, protVars
<1>13. CASE ScriptOpens
  <2>1. phase' \in {"start", "protector", "getter", "loader", "init", "file", "shell", "loop", "dead"}
    BY <1>2, <1>13 DEF ScriptOpens, ProcessInv
  <2>2. UNCHANGED nodeVars \/ OpenNode("null", NullObjects)
    BY <1>13 DEF ScriptOpens
  <2>3. NodeInv'
    BY <1>1, <2>2, OpenNodeStep
  <2>4. QED
    BY <1>0, <1>3, <1>13, <2>1, <2>3 DEF ScriptOpens, ProcessInv, hookVars, protVars, pluginVars
<1>14. CASE ScriptRediscovers
  <2>1. PICK k \in 1..Len(insts) : Rediscover(k)
    BY <1>14 DEF ScriptRediscovers
  <2>2. NodeInv'
    BY <2>1, RediscoverStep
  <2>3. QED
    BY <1>0, <1>3, <1>14, <2>2 DEF ScriptRediscovers, ProcessInv, hookVars, protVars, pluginVars
<1>15. CASE ScriptCalls
  BY <1>0, <1>1, <1>3, <1>15 DEF ScriptCalls, ProcessInv, hookVars, protVars, pluginVars
<1>16. CASE ScriptSetsProt
  <2>1. \A n \in Counts : StackNumber(count, n) \subseteq Int
    BY ServerAssumption DEF StackNumber
  <2>2. count' \in Int /\ armed' = count'
    BY <1>5, <1>16, <2>1 DEF ScriptSetsProt
  <2>3. QED
    BY <1>0, <1>1, <1>3, <1>16, <2>2 DEF ScriptSetsProt, ProcessInv, hookVars, pluginVars
<1>17. CASE ScriptSpins
  BY <1>0, <1>1, <1>3, <1>17 DEF ScriptSpins, ProcessInv, hookVars, protVars, pluginVars
<1>18. CASE Runaway
  BY <1>0, <1>1, <1>2, <1>18 DEF Runaway, ProcessInv, hookVars, protVars, pluginVars
<1>19. CASE ScriptEnds
  BY <1>0, <1>1, <1>2, <1>19 DEF ScriptEnds, ProcessInv, hookVars, protVars, pluginVars, runVars
<1>20. CASE Discovered
  <2>1. PICK dev \in Devices : OpenNode("serial", dev) /\ (Raise \/ phase' = phase)
    BY <1>20 DEF Discovered
  <2>2. NodeInv'
    BY <2>1, OpenNodeStep
  <2>3. phase' \in {"start", "protector", "getter", "loader", "init", "file", "shell", "loop", "dead"}
    BY <1>2, <2>1 DEF ProcessInv
  <2>4. QED
    BY <1>0, <1>20, <2>2, <2>3 DEF Discovered, ProcessInv, hookVars, protVars, pluginVars
<1>21. CASE Replied
  BY <1>0, <1>1, <1>21 DEF Replied, ProcessInv, hookVars, protVars, pluginVars
<1>22. CASE UNCHANGED serverVars
  BY <1>0, <1>1, <1>22 DEF serverVars, ProcessInv, hookVars, protVars, pluginVars, runVars
<1>23. QED
  BY <1>6, <1>7, <1>8, <1>9, <1>10, <1>11, <1>12, <1>13, <1>14, <1>15, <1>16, <1>17, <1>18,
     <1>19, <1>20, <1>21, <1>22
  DEF ServerNext, Boot, Script, Answers

\* Before it starts.
LEMMA ServerStart == ServerInit => ProcessInv /\ NodeInv
<1> SUFFICES ASSUME ServerInit PROVE ProcessInv /\ NodeInv
  OBVIOUS
<1>1. <<>> \in Seq(Functions0) /\ Len(<<>>) = 0
  BY EmptySeq
<1>2. Typed(insts) /\ Typed(nodes)
  BY EmptySeq DEF ServerInit, NodesInit, Typed
<1>3. MaxInsts \in Nat /\ MaxOps \in Nat
  BY NodesAssumption, ServerAssumption
<1>4. ProcessInv
  BY <1>1, <1>3 DEF ServerInit, ProcessInv, Held
<1>5. NodeInv
  BY <1>1, <1>2, <1>3 DEF ServerInit, NodesInit, NodeInv
<1>6. QED
  BY <1>4, <1>5

------------------------------------------------------------------------------
(* The tables of objects.                                                      *)

\* The pointers of a list forward from its head and back to it.
Forward(l, h, s) ==
    \A k \in 0..Len(s) : l.next[RingEntry(h, s, k)] = RingEntry(h, s, k + 1)

\* The bounds, and that list_for_each may take enough steps for any list.
LEMMA AddressFacts ==
    /\ MaxInsts \in Nat /\ MaxObjs \in Nat /\ MaxObjs >= 3
    /\ Steps \in Nat /\ MaxObjs + 1 <= Steps
<1>1. MaxInsts \in Nat /\ MaxObjs \in Nat /\ MaxObjs >= 3
  BY NodesAssumption
<1>2. /\ IsFiniteSet(0..MaxInsts) /\ Cardinality(0..MaxInsts) = MaxInsts + 1
      /\ IsFiniteSet(0..MaxObjs) /\ Cardinality(0..MaxObjs) = MaxObjs + 1
  <2>1. \A n \in Nat : IsFiniteSet(0..n) /\ Cardinality(0..n) = n + 1
    BY FS_Interval
  <2>2. QED
    BY <1>1, <2>1
<1>3. Steps = (MaxInsts + 1) * (MaxObjs + 1)
  <2>1. \A S, T : IsFiniteSet(S) /\ IsFiniteSet(T)
                 => Cardinality(S \X T) = Cardinality(S) * Cardinality(T)
    BY FS_Product
  <2>2. Steps = Cardinality((0..MaxInsts) \X (0..MaxObjs))
    BY Zenon DEF Steps, Addresses
  <2>3. Cardinality((0..MaxInsts) \X (0..MaxObjs))
            = Cardinality(0..MaxInsts) * Cardinality(0..MaxObjs)
    BY <1>2, <2>1, Zenon
  <2>4. QED
    BY <1>2, <2>2, <2>3, Zenon
<1>4. (MaxObjs + 1) * (MaxInsts + 1) >= MaxObjs + 1
  BY <1>1, TimesBound
<1>5. (MaxObjs + 1) * (MaxInsts + 1) = (MaxInsts + 1) * (MaxObjs + 1)
  BY <1>1, Assoc
<1>6. (MaxInsts + 1) * (MaxObjs + 1) \in Nat
  BY <1>1
<1>7. QED
  BY <1>1, <1>3, <1>4, <1>5, <1>6

\* list_for_each passes the entries and is back at the head after the last.
LEMMA VisitEntries ==
    ASSUME NEW l, NEW h, NEW s, Len(s) \in Nat, Len(s) + 1 <= Steps, Forward(l, h, s)
    PROVE  \A j \in 0..(Len(s) + 1) : Visit(l, h)[j] = RingEntry(h, s, j)
<1>0. PICK n \in Nat, N \in Nat : n = Len(s) /\ N = Steps
  BY AddressFacts
<1> DEFINE At(g) == g = [j \in 0..N |-> IF j = 0 THEN h ELSE l.next[g[j - 1]]]
           at == CHOOSE g : At(g)
<1>1. \A k \in 0..n : l.next[RingEntry(h, s, k)] = RingEntry(h, s, k + 1)
  BY <1>0 DEF Forward
<1>2. RingEntry(h, s, 0) = h /\ RingEntry(h, s, n + 1) = h
  BY <1>0 DEF RingEntry
<1>3. \E g : At(g)
  <2>1. PICK step : step = [x \in Nat \X (0..n) |-> IF x[2] = n THEN 0 ELSE x[2] + 1]
    OBVIOUS
  <2>2. step \in [Nat \X (0..n) -> 0..n]
    BY <2>1
  <2>3. PICK i \in [0..N -> 0..n] : i[0] = 0 /\ \A k \in 1..N : i[k] = step[<<k, i[k - 1]>>]
    <3>1. 0 \in 0..n
      OBVIOUS
    <3>2. \E i \in [0..N -> 0..n] : Computed(i, 0, step, N)
      BY <2>2, <3>1, StepByStep
    <3>3. QED
      BY <3>2 DEF Computed
  <2>4. PICK g : g = [j \in 0..N |-> RingEntry(h, s, i[j])]
    OBVIOUS
  <2>5. ASSUME NEW k \in 1..N PROVE g[k] = l.next[g[k - 1]]
    <3>1. k - 1 \in 0..N /\ k \in 0..N /\ k \in Nat
      OBVIOUS
    <3>2. PICK v \in 0..n : v = i[k - 1]
      BY <2>3, <3>1
    <3>3. i[k] = IF v = n THEN 0 ELSE v + 1
      <4>1. <<k, v>> \in Nat \X (0..n)
        BY <3>1
      <4>2. step[<<k, v>>] = IF v = n THEN 0 ELSE v + 1
        BY <2>1, <4>1
      <4>3. QED
        BY <2>3, <3>2, <4>2
    <3>4. l.next[RingEntry(h, s, v)] = RingEntry(h, s, v + 1)
      BY <1>1
    <3>5. RingEntry(h, s, i[k]) = RingEntry(h, s, v + 1)
      BY <1>2, <3>3
    <3>6. QED
      BY <2>4, <3>1, <3>2, <3>4, <3>5
  <2>6. g[0] = h
    BY <1>2, <2>3, <2>4
  <2>7. \A j \in 0..N : g[j] = IF j = 0 THEN h ELSE l.next[g[j - 1]]
    BY <2>5, <2>6
  <2>8. g = [j \in 0..N |-> g[j]]
    BY <2>4
  <2>9. At(g)
    BY <2>7, <2>8
  <2>10. QED
    BY <2>9
<1>4. Visit(l, h) = at
  BY <1>0, Zenon DEF Visit
<1>5. At(at)
  <2> HIDE DEF At
  <2>1. QED
    BY <1>3
<1>6. PICK g : At(g) /\ g = at
  BY <1>5
<1>7. g[0] = h /\ \A k \in 1..N : g[k] = l.next[g[k - 1]]
  BY <1>6
<1> HIDE DEF At, at
<1>8. PICK T : T = {j \in Nat : j <= n + 1 => g[j] = RingEntry(h, s, j)}
  OBVIOUS
<1>9. 0 \in T
  BY <1>2, <1>7, <1>8
<1>10. ASSUME NEW j \in T PROVE j + 1 \in T
  <2>1. j \in Nat /\ (j <= n + 1 => g[j] = RingEntry(h, s, j))
    BY <1>8, <1>10
  <2>2. ASSUME j + 1 <= n + 1 PROVE g[j + 1] = RingEntry(h, s, j + 1)
    <3>1. j \in 0..n /\ j + 1 \in 1..N /\ (j + 1) - 1 = j
      BY <1>0, <2>1, <2>2
    <3>2. g[j + 1] = l.next[g[j]] /\ g[j] = RingEntry(h, s, j)
      BY <1>7, <2>1, <3>1
    <3>3. QED
      BY <1>1, <3>1, <3>2
  <2>3. QED
    BY <1>8, <2>1, <2>2
<1>11. \A j \in Nat : j \in T
  <2>1. T \in SUBSET Nat
    BY <1>8
  <2>2. QED
    BY <1>9, <1>10, <2>1, Induction
<1>12. \A j \in 0..(n + 1) : g[j] = RingEntry(h, s, j)
  BY <1>8, <1>11
<1>13. QED
  BY <1>0, <1>4, <1>6, <1>12

\* The table that is made of a list has its entries.
LEMMA ListedEntries ==
    ASSUME NEW l, NEW h, NEW s, ListOf(Addresses, h, s), Len(s) + 1 <= Steps,
           Forward(l, h, s)
    PROVE  Listed(l, h) = s
<1>1. Len(s) \in Nat /\ s \in Seq(Addresses) /\ \A k \in 1..Len(s) : s[k] # h
  BY EntriesDistinct DEF ListOf
<1>2. PICK n \in Nat, N \in Nat : n = Len(s) /\ N = Steps /\ n + 1 <= N
  BY <1>1, AddressFacts
<1>3. PICK at : at = Visit(l, h)
  OBVIOUS
<1>4. \A j \in 0..(n + 1) : at[j] = RingEntry(h, s, j)
  BY <1>1, <1>2, <1>3, VisitEntries
<1>5. /\ \A j \in 1..n : at[j] = s[j] /\ at[j] # h
      /\ at[n + 1] = h
  BY <1>1, <1>2, <1>4 DEF RingEntry
<1> DEFINE Back(j) == at[j + 1] = h /\ \A k \in 1..j : at[k] # h
           last == CHOOSE j \in 0..N - 1 : Back(j)
<1>6. n \in 0..N - 1 /\ Back(n)
  BY <1>2, <1>5
<1>7. ASSUME NEW j \in 0..N - 1, Back(j) PROVE j = n
  <2>1. ~(j < n)
    <3>1. j < n => j + 1 \in 1..n
      OBVIOUS
    <3>2. QED
      BY <1>5, <1>7, <3>1
  <2>2. ~(j > n)
    <3>1. j > n => n + 1 \in 1..j
      OBVIOUS
    <3>2. QED
      BY <1>5, <1>7, <3>1
  <2>3. QED
    BY <2>1, <2>2
<1>8. last = n
  <2> HIDE DEF Back
  <2>1. QED
    BY <1>6, <1>7
<1>9. Listed(l, h) = [j \in 1..last |-> at[j]]
  BY <1>2, <1>3, Zenon DEF Listed
<1> HIDE DEF last
<1>10. s = [j \in 1..n |-> s[j]]
  BY <1>1, <1>2
<1>11. QED
  BY <1>5, <1>8, <1>9, <1>10

\* Updating a function at a place that it may not have.
LEMMA UpdateAny ==
    ASSUME NEW A, NEW B, NEW g \in [A -> B], NEW a, NEW v \in B
    PROVE  [g EXCEPT ![a] = v] \in [A -> B]
  OBVIOUS

\* The links ll are the links l with e put between p and h.
LinkedLast(l, e, p, h, ll) ==
    /\ ll \in Links(Addresses)
    /\ \A n \in Addresses :
         /\ ll.next[n] = IF n = p THEN e ELSE IF n = e THEN h ELSE l.next[n]
         /\ ll.prev[n] = IF n = e THEN p ELSE IF n = h THEN e ELSE l.prev[n]

\* list_add_tail does that, whatever the list looks like.
LEMMA AddTailLinks ==
    ASSUME NEW l \in Links(Addresses), NEW h \in Addresses, NEW e \in Addresses
    PROVE  LinkedLast(l, e, l.prev[h], h, list_add_tail(l, e, h))
<1>0. PICK A : A = Addresses
  OBVIOUS
<1>1. PICK ll, p : ll = list_add_tail(l, e, h) /\ p = l.prev[h]
  OBVIOUS
<1>2. l.next \in [A -> A \cup {Null}] /\ l.prev \in [A -> A \cup {Null}]
  BY <1>0 DEF Links
<1>3. p \in A \cup {Null}
  BY <1>0, <1>1, <1>2
<1>4. ll.next = [[l.next EXCEPT ![e] = h] EXCEPT ![p] = e]
  BY <1>0, <1>1 DEF list_add_tail, list_add_between, Links
<1>5. ll.prev = [[l.prev EXCEPT ![h] = e] EXCEPT ![e] = p]
  BY <1>0, <1>1 DEF list_add_tail, list_add_between, Links
<1>6. ll = [x \in {"next", "prev"} |-> ll[x]]
  BY <1>1, Zenon DEF list_add_tail, list_add_between, Links
<1>7. ll.next \in [A -> A \cup {Null}] /\ ll.prev \in [A -> A \cup {Null}]
  <2>2. [l.next EXCEPT ![e] = h] \in [A -> A \cup {Null}]
    BY <1>0, <1>2
  <2>3. [l.prev EXCEPT ![h] = e] \in [A -> A \cup {Null}]
    BY <1>0, <1>2
  <2>4. PICK g, gg : g = [l.next EXCEPT ![e] = h] /\ gg = [l.prev EXCEPT ![h] = e]
    OBVIOUS
  <2>5. g \in [A -> A \cup {Null}] /\ gg \in [A -> A \cup {Null}] /\ e \in A \cup {Null}
    BY <1>0, <2>2, <2>3, <2>4
  <2>6. [g EXCEPT ![p] = e] \in [A -> A \cup {Null}]
    BY <2>5, UpdateAny
  <2>7. [gg EXCEPT ![e] = p] \in [A -> A \cup {Null}]
    BY <1>3, <2>5, UpdateAny
  <2>8. QED
    BY <1>4, <1>5, <2>4, <2>6, <2>7
<1>8. ll \in Links(A)
  BY <1>0, <1>6, <1>7, RecordOf DEF Links
<1>9. /\ \A n \in A : ll.next[n] = IF n = p THEN e ELSE IF n = e THEN h ELSE l.next[n]
      /\ \A n \in A : ll.prev[n] = IF n = e THEN p ELSE IF n = h THEN e ELSE l.prev[n]
  BY <1>0, <1>2, <1>3, <1>4, <1>5
<1>10. QED
  BY <1>0, <1>1, <1>8, <1>9 DEF LinkedLast

\* The links after each of the entries a discovery adds.
Added(f, l, h, objs) ==
    /\ f \in [0..Len(objs) -> Links(Addresses)]
    /\ f[0] = l
    /\ \A k \in 1..Len(objs) : f[k] = list_add_tail(f[k - 1], objs[k], h)
    /\ AddAll(l, h, objs) = f[Len(objs)]

\* There are such links.
LEMMA AddAllSteps ==
    ASSUME NEW l \in Links(Addresses), NEW h \in Addresses, NEW objs \in Seq(Addresses)
    PROVE  \E f : Added(f, l, h, objs)
<1>0. PICK n \in Nat : n = Len(objs)
  OBVIOUS
<1> DEFINE All(g) == g = [j \in 0..n |-> IF j = 0 THEN l ELSE list_add_tail(g[j - 1], objs[j], h)]
           all == CHOOSE g : All(g)
<1>1. \A k \in 1..n : objs[k] \in Addresses
  BY <1>0, ElementOfSeq
<1>2. \A x \in Links(Addresses), k \in 1..n :
          list_add_tail(x, objs[k], h) \in Links(Addresses)
  BY <1>1, AddTailLinks DEF LinkedLast
<1>3. PICK step : step = [x \in Nat \X Links(Addresses) |->
                             IF x[1] \in 1..n THEN list_add_tail(x[2], objs[x[1]], h) ELSE l]
  OBVIOUS
<1>4. step \in [Nat \X Links(Addresses) -> Links(Addresses)]
  <2>1. ASSUME NEW x \in Nat \X Links(Addresses) PROVE step[x] \in Links(Addresses)
    <3>1. x[2] \in Links(Addresses)
      BY <2>1
    <3>2. step[x] = IF x[1] \in 1..n THEN list_add_tail(x[2], objs[x[1]], h) ELSE l
      BY <1>3
    <3>3. QED
      BY <1>2, <3>1, <3>2
  <2>2. step = [x \in Nat \X Links(Addresses) |-> step[x]]
    BY <1>3
  <2>3. QED
    BY <2>1, <2>2
<1>5. PICK f \in [0..n -> Links(Addresses)] :
          f[0] = l /\ \A k \in 1..n : f[k] = step[<<k, f[k - 1]>>]
  <2>1. \E f \in [0..n -> Links(Addresses)] : Computed(f, l, step, n)
    BY <1>4, StepByStep
  <2>2. QED
    BY <2>1 DEF Computed
<1>6. ASSUME NEW k \in 1..n PROVE f[k] = list_add_tail(f[k - 1], objs[k], h)
  <2>1. k - 1 \in 0..n /\ k \in Nat
    OBVIOUS
  <2>2. PICK v \in Links(Addresses) : v = f[k - 1]
    BY <1>5, <2>1
  <2>3. <<k, v>> \in Nat \X Links(Addresses)
    BY <2>1
  <2>4. step[<<k, v>>] = list_add_tail(v, objs[k], h)
    BY <1>3, <2>3
  <2>5. QED
    BY <1>5, <2>2, <2>4
<1>7. \E g : All(g)
  <2>1. \A j \in 0..n : f[j] = IF j = 0 THEN l ELSE list_add_tail(f[j - 1], objs[j], h)
    BY <1>5, <1>6
  <2>2. f = [j \in 0..n |-> f[j]]
    BY <1>5
  <2>3. All(f)
    BY <2>1, <2>2
  <2>4. QED
    BY <2>3
<1>8. AddAll(l, h, objs) = all[n]
  BY <1>0, Zenon DEF AddAll
<1>9. All(all)
  <2> HIDE DEF All
  <2>1. QED
    BY <1>7
<1>10. PICK g : All(g) /\ g = all
  BY <1>9
<1>11. /\ g[0] = l
       /\ \A k \in 1..n : g[k] = list_add_tail(g[k - 1], objs[k], h)
  <2>1. g = [j \in 0..n |-> IF j = 0 THEN l ELSE list_add_tail(g[j - 1], objs[j], h)]
    BY <1>10
  <2>2. \A j \in 0..n : g[j] = IF j = 0 THEN l ELSE list_add_tail(g[j - 1], objs[j], h)
    BY <2>1
  <2>3. QED
    BY <2>2
<1> HIDE DEF All, all
<1>12. PICK T : T = {j \in Nat : j <= n => g[j] = f[j]}
  OBVIOUS
<1>13. 0 \in T
  BY <1>5, <1>11, <1>12
<1>14. ASSUME NEW j \in T PROVE j + 1 \in T
  <2>1. j \in Nat /\ (j <= n => g[j] = f[j])
    BY <1>12, <1>14
  <2>2. ASSUME j + 1 <= n PROVE g[j + 1] = f[j + 1]
    <3>1. j + 1 \in 1..n /\ (j + 1) - 1 = j /\ g[j] = f[j]
      BY <2>1, <2>2
    <3>2. g[j + 1] = list_add_tail(g[j], objs[j + 1], h)
      BY <1>11, <3>1
    <3>3. f[j + 1] = list_add_tail(f[j], objs[j + 1], h)
      BY <1>6, <3>1
    <3>4. QED
      BY <3>1, <3>2, <3>3
  <2>3. QED
    BY <1>12, <2>1, <2>2
<1>15. \A j \in Nat : j \in T
  <2>1. T \in SUBSET Nat
    BY <1>12
  <2>2. QED
    BY <1>13, <1>14, <2>1, Induction
<1>16. AddAll(l, h, objs) = f[n]
  BY <1>8, <1>10, <1>12, <1>15
<1>17. Added(f, l, h, objs)
  BY <1>0, <1>5, <1>6, <1>16 DEF Added
<1>18. QED
  BY <1>17

\* The first entries of a sequence.
LEMMA FirstEntries ==
    ASSUME NEW S, NEW s \in Seq(S), NEW k \in Nat, k + 1 <= Len(s)
    PROVE  /\ SubSeq(s, 1, k) \in Seq(S) /\ Len(SubSeq(s, 1, k)) = k
           /\ \A j \in 1..k : SubSeq(s, 1, k)[j] = s[j]
           /\ SubSeq(s, 1, k + 1) = Append(SubSeq(s, 1, k), s[k + 1])
  OBVIOUS

\* A discovery into a fresh list makes it the ring of what is found.
LEMMA AddAllRing ==
    ASSUME NEW l \in Links(Addresses), NEW h \in Addresses, NEW objs,
           ListOf(Addresses, h, objs), Ring(l, h, <<>>)
    PROVE  /\ AddAll(l, h, objs) \in Links(Addresses)
           /\ Ring(AddAll(l, h, objs), h, objs)
           /\ SameOutside(Addresses, l, AddAll(l, h, objs), h, objs)
<1>1. objs \in Seq(Addresses) /\ Len(objs) \in Nat
  BY EntriesDistinct DEF ListOf
<1>2. PICK f : Added(f, l, h, objs)
  BY <1>1, AddAllSteps
<1>3. PICK n \in Nat : n = Len(objs)
  BY <1>1
<1>4. /\ f \in [0..n -> Links(Addresses)] /\ f[0] = l
      /\ \A k \in 1..n : f[k] = list_add_tail(f[k - 1], objs[k], h)
      /\ AddAll(l, h, objs) = f[n]
  BY <1>2, <1>3 DEF Added
<1> DEFINE Good(k) == /\ ListOf(Addresses, h, SubSeq(objs, 1, k))
                      /\ Ring(f[k], h, SubSeq(objs, 1, k))
                      /\ SameOutside(Addresses, l, f[k], h, SubSeq(objs, 1, k))
<1>5. PICK T : T = {k \in Nat : k <= n => Good(k)}
  OBVIOUS
<1>6. Good(0)
  <2>1. SubSeq(objs, 1, 0) = <<>>
    BY <1>1
  <2>2. ListOf(Addresses, h, <<>>)
    BY DEF ListOf
  <2>3. SameOutside(Addresses, l, l, h, <<>>)
    BY DEF SameOutside
  <2>4. QED
    BY <1>4, <2>1, <2>2, <2>3
<1>7. ASSUME NEW k \in Nat, k + 1 <= n, Good(k) PROVE Good(k + 1)
  <2>1. PICK s : s = SubSeq(objs, 1, k)
    OBVIOUS
  <2>2. PICK e \in Addresses : e = objs[k + 1]
    BY <1>1, <1>3, <1>7, ElementOfSeq
  <2>3. /\ s \in Seq(Addresses) /\ Len(s) = k /\ \A j \in 1..k : s[j] = objs[j]
        /\ SubSeq(objs, 1, k + 1) = Append(s, e)
    BY <1>1, <1>3, <1>7, <2>1, <2>2, FirstEntries
  <2>4. e # h /\ \A j \in 1..Len(s) : s[j] # e
    BY <1>1, <1>3, <1>7, <2>2, <2>3 DEF ListOf
  <2>5. PICK x \in Links(Addresses) : x = f[k]
    BY <1>4, <1>7
  <2>6. ListOf(Addresses, h, s) /\ Ring(x, h, s) /\ SameOutside(Addresses, l, x, h, s)
    BY <1>7, <2>1, <2>5
  <2>7. f[k + 1] = list_add_tail(x, e, h)
    <3>1. k + 1 \in 1..n /\ (k + 1) - 1 = k
      BY <1>7
    <3>2. QED
      BY <1>4, <2>2, <2>5, <3>1
  <2>8. /\ ListOf(Addresses, h, Append(s, e))
        /\ Ring(list_add_tail(x, e, h), h, Append(s, e))
        /\ SameOutside(Addresses, x, list_add_tail(x, e, h), h, Append(s, e))
    BY <2>4, <2>6, AddTailRing
  <2>9. SameOutside(Addresses, l, list_add_tail(x, e, h), h, Append(s, e))
    <3>1. /\ Len(Append(s, e)) = k + 1 /\ Append(s, e)[k + 1] = e
          /\ \A j \in 1..k : Append(s, e)[j] = s[j]
      BY <2>3, AppendProperties
    <3> SUFFICES ASSUME NEW a \in Addresses, a # h,
                        \A j \in 1..Len(Append(s, e)) : Append(s, e)[j] # a
                 PROVE  /\ list_add_tail(x, e, h).next[a] = l.next[a]
                        /\ list_add_tail(x, e, h).prev[a] = l.prev[a]
      BY DEF SameOutside
    <3>2. a # e /\ \A j \in 1..Len(s) : s[j] # a
      BY <1>7, <2>3, <3>1
    <3>3. x.next[a] = l.next[a] /\ x.prev[a] = l.prev[a]
      BY <2>6, <3>2 DEF SameOutside
    <3>4. QED
      BY <2>8, <3>3 DEF SameOutside
  <2>10. QED
    BY <2>3, <2>7, <2>8, <2>9
<1>8. \A k \in Nat : k \in T
  <2> HIDE DEF Good
  <2>1. T \in SUBSET Nat
    BY <1>5
  <2>2. 0 \in T
    BY <1>5, <1>6
  <2>3. ASSUME NEW k \in T PROVE k + 1 \in T
    <3>1. k \in Nat /\ (k <= n => Good(k))
      BY <1>5, <2>3
    <3>2. k + 1 <= n => Good(k + 1)
      BY <1>7, <3>1
    <3>3. QED
      BY <1>5, <3>1, <3>2
  <2>4. QED
    BY <2>1, <2>2, <2>3, Induction
<1>9. Good(n)
  BY <1>5, <1>8
<1>10. SubSeq(objs, 1, n) = objs
  BY <1>1, <1>3
<1>11. f[n] \in Links(Addresses)
  BY <1>4
<1>12. QED
  BY <1>4, <1>9, <1>10, <1>11

\* The heads and the static objects are different list_heads.
LEMMA HeadFacts ==
    /\ \A j \in 1..MaxInsts : Head0(j) \in Addresses /\ Head0(j)[1] = j /\ Head0(j)[2] = 0
    /\ <<0, 1>> \in Addresses /\ <<0, 2>> \in Addresses /\ <<0, 3>> \in Addresses
<1>1. 0 \in 0..MaxInsts /\ {0, 1, 2, 3} \subseteq 0..MaxObjs
  BY AddressFacts
<1>2. \A j \in 1..MaxInsts : j \in 0..MaxInsts
  OBVIOUS
<1>3. QED
  BY <1>1, <1>2 DEF Addresses, Head0

\* What discovery finds is a list of the head of its instance.
LEMMA FoundList ==
    ASSUME NEW k \in 1..MaxInsts, NEW tr, NEW dev, Len(dev) \in 0..MaxObjs
    PROVE  /\ ListOf(Addresses, Head0(k), Found(k, tr, dev))
           /\ Len(Found(k, tr, dev)) = Len(dev)
           /\ \A j \in 1..Len(dev) : Found(k, tr, dev)[j][2] = j
           /\ \A a \in Addresses : (\E j \in 1..Len(dev) : Found(k, tr, dev)[j] = a) => a[2] # 0
<1>1. PICK n \in 0..MaxObjs : n = Len(dev)
  OBVIOUS
<1>2. n \in Nat /\ MaxObjs \in Nat /\ MaxInsts \in Nat
  BY AddressFacts
<1>3. PICK s : s = Found(k, tr, dev)
  OBVIOUS
<1>4. s = [j \in 1..n |-> IF tr = "null" THEN <<0, j>> ELSE <<k, j>>]
  BY <1>1, <1>3 DEF Found
<1>5. \A j \in 1..n : s[j] \in Addresses /\ s[j][2] = j
  BY <1>2, <1>4 DEF Addresses
<1>6. s \in Seq(Addresses) /\ Len(s) = n
  BY <1>2, <1>4, <1>5
<1>7. Head0(k) \in Addresses /\ Head0(k)[2] = 0
  BY <1>2 DEF Addresses, Head0
<1>8. \A i, j \in 1..Len(s) : s[i] = s[j] => i = j
  BY <1>5, <1>6
<1>9. \A j \in 1..Len(s) : s[j] # Head0(k)
  BY <1>5, <1>6, <1>7
<1>10. ListOf(Addresses, Head0(k), s)
  BY <1>6, <1>7, <1>8, <1>9 DEF ListOf
<1>11. QED
  BY <1>1, <1>3, <1>5, <1>6, <1>10

\* The three static objects.
LEMMA NullObjectsFacts ==
    /\ Len(NullObjects) = 3 /\ Len(NullObjects) \in 0..MaxObjs
    /\ \A k : LET s == Found(k, "null", NullObjects) IN
           Len(s) = 3 /\ s[1] = <<0, 1>> /\ s[2] = <<0, 2>> /\ s[3] = <<0, 3>>
<1>1. Len(NullObjects) = 3
  BY DEF NullObjects
<1>2. ASSUME NEW k
      PROVE  /\ Len(Found(k, "null", NullObjects)) = 3
             /\ Found(k, "null", NullObjects)[1] = <<0, 1>>
             /\ Found(k, "null", NullObjects)[2] = <<0, 2>>
             /\ Found(k, "null", NullObjects)[3] = <<0, 3>>
  <2>1. Found(k, "null", NullObjects) = [j \in 1..3 |-> <<0, j>>]
    BY <1>1 DEF Found
  <2>2. QED
    BY <2>1
<1>3. 3 \in 0..MaxObjs
  BY AddressFacts
<1>4. QED
  BY <1>1, <1>2, <1>3

\* The head of an instance of the null transport keeps its two ends, whoever has
\* linked the static objects since.
Ends(l, k) == l.next[Head0(k)] = <<0, 1>> /\ l.prev[Head0(k)] = <<0, 3>>

\* A discovery into a fresh list.
LEMMA OpenedTable ==
    ASSUME NEW l \in Links(Addresses), NEW k \in 1..MaxInsts, NEW tr, NEW dev,
           Len(dev) \in 0..MaxObjs,
           NEW ll, ll = AddAll(INIT_LIST_HEAD(l, Head0(k)), Head0(k), Found(k, tr, dev))
    PROVE  /\ ll \in Links(Addresses)
           /\ Listed(ll, Head0(k)) = Found(k, tr, dev)
           /\ \A j \in 1..MaxInsts : j # k => /\ ll.next[Head0(j)] = l.next[Head0(j)]
                                              /\ ll.prev[Head0(j)] = l.prev[Head0(j)]
           /\ tr = "null" /\ dev = NullObjects => Ends(ll, k)
<1>1. PICK h \in Addresses, s \in Seq(Addresses) : h = Head0(k) /\ s = Found(k, tr, dev)
  BY FoundList DEF ListOf
<1>2. /\ ListOf(Addresses, h, s) /\ Len(s) = Len(dev) /\ Len(s) \in Nat
      /\ \A a \in Addresses : (\E j \in 1..Len(s) : s[j] = a) => a[2] # 0
  BY <1>1, FoundList
<1>3. PICK l0 : l0 = INIT_LIST_HEAD(l, h)
  OBVIOUS
<1>4. /\ l0 \in Links(Addresses) /\ Ring(l0, h, <<>>)
      /\ \A n \in Addresses : n # h => l0.next[n] = l.next[n] /\ l0.prev[n] = l.prev[n]
  BY <1>3, InitRing
<1>5. ll = AddAll(l0, h, s)
  BY <1>1, <1>3
<1>6. /\ ll \in Links(Addresses) /\ Ring(ll, h, s)
      /\ SameOutside(Addresses, l0, ll, h, s)
  BY <1>2, <1>4, <1>5, AddAllRing
<1>7. Listed(ll, h) = s
  <2>1. Forward(ll, h, s)
    BY <1>6 DEF Ring, Forward
  <2>2. Len(s) + 1 <= Steps
    BY <1>2, AddressFacts
  <2>3. QED
    BY <1>2, <2>1, <2>2, ListedEntries
<1>8. ASSUME NEW j \in 1..MaxInsts, j # k
      PROVE  ll.next[Head0(j)] = l.next[Head0(j)] /\ ll.prev[Head0(j)] = l.prev[Head0(j)]
  <2>1. PICK n \in Addresses : n = Head0(j) /\ n[2] = 0 /\ n # h
    BY <1>1, <1>8, HeadFacts
  <2>2. \A i \in 1..Len(s) : s[i] # n
    BY <1>2, <2>1
  <2>3. ll.next[n] = l0.next[n] /\ ll.prev[n] = l0.prev[n]
    BY <1>6, <2>1, <2>2 DEF SameOutside
  <2>4. QED
    BY <1>4, <2>1, <2>3
<1>9. ASSUME tr = "null", dev = NullObjects PROVE Ends(ll, k)
  <2>1. Len(s) = 3 /\ s[1] = <<0, 1>> /\ s[3] = <<0, 3>>
    BY <1>1, <1>9, NullObjectsFacts
  <2>2. /\ RingEntry(h, s, 0) = h /\ RingEntry(h, s, 1) = s[1]
        /\ RingEntry(h, s, 3) = s[3] /\ RingEntry(h, s, 4) = h
    BY <2>1 DEF RingEntry
  <2>3. 0 \in 0..Len(s) /\ 3 \in 0..Len(s) /\ 0 + 1 = 1 /\ 3 + 1 = 4
    BY <2>1
  <2>4. ll.next[h] = s[1] /\ ll.prev[h] = s[3]
    BY <1>6, <2>2, <2>3 DEF Ring
  <2>5. QED
    BY <1>1, <2>1, <2>4 DEF Ends
<1>10. QED
  BY <1>1, <1>6, <1>7, <1>8, <1>9

\* Another discovery into the list of an instance of the null transport, wherever
\* the static objects have been linked in between.
LEMMA RediscoveredTable ==
    ASSUME NEW l \in Links(Addresses), NEW k \in 1..MaxInsts, Ends(l, k),
           NEW ll, ll = AddAll(l, Head0(k), Found(k, "null", NullObjects))
    PROVE  /\ ll \in Links(Addresses)
           /\ Listed(ll, Head0(k)) = Found(k, "null", NullObjects)
           /\ \A j \in 1..MaxInsts : Ends(l, j) => Ends(ll, j)
<1>1. PICK h \in Addresses, s \in Seq(Addresses) :
          h = Head0(k) /\ s = Found(k, "null", NullObjects)
  BY FoundList, NullObjectsFacts DEF ListOf
<1>2. ListOf(Addresses, h, s)
  BY <1>1, FoundList, NullObjectsFacts
<1>3. PICK o1 \in Addresses, o2 \in Addresses, o3 \in Addresses :
          o1 = <<0, 1>> /\ o2 = <<0, 2>> /\ o3 = <<0, 3>>
  BY HeadFacts
<1>4. Len(s) = 3 /\ s[1] = o1 /\ s[2] = o2 /\ s[3] = o3
  BY <1>1, <1>3, NullObjectsFacts
<1>5. o1 # o2 /\ o1 # o3 /\ o2 # o3 /\ h # o1 /\ h # o2 /\ h # o3
  BY <1>1, <1>3 DEF Head0
<1>6. PICK f : Added(f, l, h, s)
  BY AddAllSteps
<1>7. /\ f[0] = l /\ f[1] = list_add_tail(f[0], o1, h)
      /\ f[2] = list_add_tail(f[1], o2, h) /\ f[3] = list_add_tail(f[2], o3, h)
      /\ ll = f[3]
  <2>1. 1 \in 1..3 /\ 2 \in 1..3 /\ 3 \in 1..3 /\ 1 - 1 = 0 /\ 2 - 1 = 1 /\ 3 - 1 = 2
    OBVIOUS
  <2>2. f[0] = l /\ f[Len(s)] = ll
    BY <1>1, <1>6 DEF Added
  <2>3. \A j \in 1..3 : f[j] = list_add_tail(f[j - 1], s[j], h)
    BY <1>4, <1>6 DEF Added
  <2>4. QED
    BY <1>4, <2>1, <2>2, <2>3
<1>8. PICK a : a = list_add_tail(l, o1, h)
  OBVIOUS
<1>9. PICK b : b = list_add_tail(a, o2, h)
  OBVIOUS
<1>10. ll = list_add_tail(b, o3, h)
  BY <1>7, <1>8, <1>9
<1>11. l.next[h] = o1 /\ l.prev[h] = o3
  BY <1>1, <1>3 DEF Ends
<1>12. LinkedLast(l, o1, o3, h, a)
  BY <1>8, <1>11, AddTailLinks
<1>13. a \in Links(Addresses) /\ a.prev[h] = o1 /\ a.next[h] = o1
  BY <1>5, <1>11, <1>12 DEF LinkedLast
<1>14. LinkedLast(a, o2, o1, h, b)
  BY <1>9, <1>13, AddTailLinks
<1>15. b \in Links(Addresses) /\ b.prev[h] = o2 /\ b.next[h] = o1 /\ b.next[o1] = o2
  BY <1>5, <1>13, <1>14 DEF LinkedLast
<1>16. LinkedLast(b, o3, o2, h, ll)
  BY <1>10, <1>15, AddTailLinks
<1>17. /\ ll.next[h] = o1 /\ ll.next[o1] = o2 /\ ll.next[o2] = o3 /\ ll.next[o3] = h
       /\ ll.prev[h] = o3
  BY <1>5, <1>15, <1>16 DEF LinkedLast
<1>18. Listed(ll, h) = s
  <2>1. Forward(ll, h, s)
    <3>1. /\ RingEntry(h, s, 0) = h /\ RingEntry(h, s, 1) = o1 /\ RingEntry(h, s, 2) = o2
          /\ RingEntry(h, s, 3) = o3 /\ RingEntry(h, s, 4) = h
      BY <1>4 DEF RingEntry
    <3>2. \A j \in 0..Len(s) : j = 0 \/ j = 1 \/ j = 2 \/ j = 3
      BY <1>4
    <3>3. 0 + 1 = 1 /\ 1 + 1 = 2 /\ 2 + 1 = 3 /\ 3 + 1 = 4
      OBVIOUS
    <3>4. QED
      BY <1>17, <3>1, <3>2, <3>3 DEF Forward
  <2>2. Len(s) + 1 <= Steps
    BY <1>4, AddressFacts
  <2>3. QED
    BY <1>2, <2>1, <2>2, ListedEntries
<1>19. ASSUME NEW j \in 1..MaxInsts, Ends(l, j) PROVE Ends(ll, j)
  <2>1. CASE j = k
    BY <1>1, <1>3, <1>17, <2>1 DEF Ends
  <2>2. CASE j # k
    <3>1. PICK n \in Addresses : n = Head0(j) /\ n # h /\ n # o1 /\ n # o2 /\ n # o3
      <4>1. /\ Head0(j) \in Addresses /\ Head0(j)[1] = j /\ Head0(j)[2] = 0
            /\ Head0(k)[1] = k
        BY HeadFacts
      <4>2. o1[2] = 1 /\ o2[2] = 2 /\ o3[2] = 3
        BY <1>3
      <4>3. QED
        BY <1>1, <2>2, <4>1, <4>2
    <3>2. ll.next[n] = l.next[n] /\ ll.prev[n] = l.prev[n]
      BY <1>12, <1>14, <1>16, <3>1 DEF LinkedLast
    <3>3. QED
      BY <1>19, <3>1, <3>2 DEF Ends
  <2>3. QED
    BY <2>1, <2>2
<1>20. QED
  BY <1>1, <1>16, <1>18, <1>19 DEF LinkedLast

------------------------------------------------------------------------------
(* The loop of urpc_open.                                                      *)

\* Functions that each remember a place of a method of their own name.
Bindings(dev, table) ==
    {f \in [Bound(dev) -> 1..Len(table)] :
        \A n \in Bound(dev) : dev[table[f[n]][2]].name = n /\ dev[table[f[n]][2]].method}

\* What is in a node before any turn, and the nodes there may be after some.
Partial(dev, table) == UNION {[D -> 1..Len(table)] : D \in SUBSET Bound(dev)}

\* The nodes after each turn of the loop.
Turned(f, dev, table, order) ==
    /\ f \in [0..Len(order) -> Partial(dev, table)]
    /\ f[0] = Unbound
    /\ \A k \in 1..Len(order) : f[k] = Turn(f[k - 1], dev, table, order[k])
    /\ NodeOf(dev, table, order) = f[Len(order)]

\* A turn binds a name of the device to a place in the table.
LEMMA TurnPartial ==
    ASSUME NEW dev, Len(dev) \in Nat, NEW table, Len(table) = Len(dev),
           \A j \in 1..Len(dev) : table[j][2] = j,
           NEW f \in Partial(dev, table), NEW i \in 1..Len(table)
    PROVE  Turn(f, dev, table, i) \in Partial(dev, table)
<1>1. PICK D \in SUBSET Bound(dev) : f \in [D -> 1..Len(table)]
  BY DEF Partial
<1>2. PICK o : o = dev[table[i][2]] /\ o = dev[i]
  OBVIOUS
<1>3. CASE ~o.method
  BY <1>2, <1>3 DEF Turn
<1>4. CASE o.method
  <2>1. o.name \in Bound(dev)
    BY <1>2, <1>4 DEF Bound
  <2>2. PICK E : E = D \cup {o.name}
    OBVIOUS
  <2>3. Turn(f, dev, table, i) = [n \in E |-> IF n = o.name THEN i ELSE f[n]]
    BY <1>1, <1>2, <1>4, <2>2 DEF Turn
  <2>4. Turn(f, dev, table, i) \in [E -> 1..Len(table)]
    BY <1>1, <2>2, <2>3
  <2>5. E \in SUBSET Bound(dev)
    BY <2>1, <2>2
  <2>6. QED
    BY <2>4, <2>5 DEF Partial
<1>5. QED
  BY <1>3, <1>4

\* The turns exist, in any order.
LEMMA TurnSteps ==
    ASSUME NEW dev, Len(dev) \in Nat, NEW table, Len(table) = Len(dev),
           \A j \in 1..Len(dev) : table[j][2] = j,
           NEW order \in Seq(1..Len(table))
    PROVE  \E f : Turned(f, dev, table, order)
<1>0. PICK n \in Nat : n = Len(order)
  OBVIOUS
<1> DEFINE All(g) == g = [j \in 0..n |-> IF j = 0 THEN Unbound
                                          ELSE Turn(g[j - 1], dev, table, order[j])]
           all == CHOOSE g : All(g)
<1>1. \A k \in 1..n : order[k] \in 1..Len(table)
  BY <1>0, ElementOfSeq
<1>2. PICK S : S = Partial(dev, table)
  OBVIOUS
<1>3. Unbound \in S
  <2>1. Unbound \in [{} -> 1..Len(table)]
    BY DEF Unbound
  <2>2. QED
    BY <1>2, <2>1 DEF Partial
<1>4. \A x \in S, k \in 1..n : Turn(x, dev, table, order[k]) \in S
  BY <1>1, <1>2, TurnPartial
<1>5. PICK step : step = [x \in Nat \X S |->
                             IF x[1] \in 1..n THEN Turn(x[2], dev, table, order[x[1]]) ELSE Unbound]
  OBVIOUS
<1>6. step \in [Nat \X S -> S]
  <2>1. ASSUME NEW x \in Nat \X S PROVE step[x] \in S
    <3>1. x[2] \in S
      BY <2>1
    <3>2. step[x] = IF x[1] \in 1..n THEN Turn(x[2], dev, table, order[x[1]]) ELSE Unbound
      BY <1>5
    <3>3. QED
      BY <1>3, <1>4, <3>1, <3>2
  <2>2. step = [x \in Nat \X S |-> step[x]]
    BY <1>5
  <2>3. QED
    BY <2>1, <2>2
<1>7. PICK f \in [0..n -> S] : f[0] = Unbound /\ \A k \in 1..n : f[k] = step[<<k, f[k - 1]>>]
  <2>1. \E f \in [0..n -> S] : Computed(f, Unbound, step, n)
    BY <1>3, <1>6, StepByStep
  <2>2. QED
    BY <2>1 DEF Computed
<1>8. ASSUME NEW k \in 1..n PROVE f[k] = Turn(f[k - 1], dev, table, order[k])
  <2>1. k - 1 \in 0..n /\ k \in Nat
    OBVIOUS
  <2>2. PICK v \in S : v = f[k - 1]
    BY <1>7, <2>1
  <2>3. <<k, v>> \in Nat \X S
    BY <2>1
  <2>4. step[<<k, v>>] = Turn(v, dev, table, order[k])
    BY <1>5, <2>3
  <2>5. QED
    BY <1>7, <2>2, <2>4
<1>9. \E g : All(g)
  <2>1. \A j \in 0..n : f[j] = IF j = 0 THEN Unbound ELSE Turn(f[j - 1], dev, table, order[j])
    BY <1>7, <1>8
  <2>2. f = [j \in 0..n |-> f[j]]
    BY <1>7
  <2>3. All(f)
    BY <2>1, <2>2
  <2>4. QED
    BY <2>3
<1>10. NodeOf(dev, table, order) = all[n]
  BY <1>0, Zenon DEF NodeOf
<1>11. All(all)
  <2> HIDE DEF All
  <2>1. QED
    BY <1>9
<1>12. PICK g : All(g) /\ g = all
  BY <1>11
<1>13. /\ g[0] = Unbound
       /\ \A k \in 1..n : g[k] = Turn(g[k - 1], dev, table, order[k])
  <2>1. g = [j \in 0..n |-> IF j = 0 THEN Unbound ELSE Turn(g[j - 1], dev, table, order[j])]
    BY <1>12
  <2>2. \A j \in 0..n : g[j] = IF j = 0 THEN Unbound ELSE Turn(g[j - 1], dev, table, order[j])
    BY <2>1
  <2>3. QED
    BY <2>2
<1> HIDE DEF All, all
<1>14. PICK T : T = {j \in Nat : j <= n => g[j] = f[j]}
  OBVIOUS
<1>15. 0 \in T
  BY <1>7, <1>13, <1>14
<1>16. ASSUME NEW j \in T PROVE j + 1 \in T
  <2>1. j \in Nat /\ (j <= n => g[j] = f[j])
    BY <1>14, <1>16
  <2>2. ASSUME j + 1 <= n PROVE g[j + 1] = f[j + 1]
    <3>1. j + 1 \in 1..n /\ (j + 1) - 1 = j /\ g[j] = f[j]
      BY <2>1, <2>2
    <3>2. g[j + 1] = Turn(g[j], dev, table, order[j + 1])
      BY <1>13, <3>1
    <3>3. f[j + 1] = Turn(f[j], dev, table, order[j + 1])
      BY <1>8, <3>1
    <3>4. QED
      BY <3>1, <3>2, <3>3
  <2>3. QED
    BY <1>14, <2>1, <2>2
<1>17. \A j \in Nat : j \in T
  <2>1. T \in SUBSET Nat
    BY <1>14
  <2>2. QED
    BY <1>15, <1>16, <2>1, Induction
<1>18. NodeOf(dev, table, order) = f[n]
  BY <1>10, <1>12, <1>14, <1>17
<1>19. Turned(f, dev, table, order)
  BY <1>0, <1>2, <1>7, <1>8, <1>18 DEF Turned
<1>20. QED
  BY <1>19

\* Names of the methods visited in the first turns.
Visited(dev, order, j) == {dev[order[i]].name : i \in {i \in 1..j : dev[order[i]].method}}

\* After some turns the node has exactly the names visited, each with a place of
\* its own.
Faithful(f, dev, order, j) ==
    /\ DOMAIN f = Visited(dev, order, j)
    /\ \A n \in DOMAIN f : f[n] \in 1..Len(dev) /\ dev[f[n]].name = n /\ dev[f[n]].method

\* A turn keeps this.
LEMMA TurnFaithful ==
    ASSUME NEW dev, Len(dev) \in Nat, NEW table, Len(table) = Len(dev),
           \A i \in 1..Len(dev) : table[i][2] = i,
           NEW order, NEW j \in Nat, order[j + 1] \in 1..Len(dev),
           NEW f, Faithful(f, dev, order, j)
    PROVE  Faithful(Turn(f, dev, table, order[j + 1]), dev, order, j + 1)
<1>1. PICK p \in 1..Len(dev) : p = order[j + 1]
  OBVIOUS
<1>2. PICK o : o = dev[p] /\ o = dev[table[p][2]]
  OBVIOUS
<1>3. Visited(dev, order, j + 1) =
          IF o.method THEN Visited(dev, order, j) \cup {o.name} ELSE Visited(dev, order, j)
  <2>1. 1..(j + 1) = (1..j) \cup {j + 1}
    OBVIOUS
  <2>2. dev[order[j + 1]] = o
    BY <1>1, <1>2
  <2>3. QED
    BY <2>1, <2>2 DEF Visited
<1>4. CASE ~o.method
  <2>1. Turn(f, dev, table, p) = f
    BY <1>2, <1>4 DEF Turn
  <2>2. QED
    BY <1>1, <1>3, <1>4, <2>1 DEF Faithful
<1>5. CASE o.method
  <2>1. PICK g : g = Turn(f, dev, table, p)
    OBVIOUS
  <2>2. g = [n \in DOMAIN f \cup {o.name} |-> IF n = o.name THEN p ELSE f[n]]
    BY <1>2, <1>5, <2>1 DEF Turn
  <2>3. DOMAIN g = Visited(dev, order, j + 1)
    BY <1>3, <1>5, <2>2 DEF Faithful
  <2>4. ASSUME NEW n \in DOMAIN g
        PROVE  g[n] \in 1..Len(dev) /\ dev[g[n]].name = n /\ dev[g[n]].method
    <3>1. CASE n = o.name
      BY <1>2, <1>5, <2>2, <3>1
    <3>2. CASE n # o.name
      BY <2>2, <3>2 DEF Faithful
    <3>3. QED
      BY <3>1, <3>2
  <2>5. QED
    BY <1>1, <2>1, <2>3, <2>4 DEF Faithful
<1>6. QED
  BY <1>4, <1>5

\* Every place of the table has its turn.
LEMMA OrderFacts ==
    ASSUME NEW N \in Nat, NEW order \in SetToSeqs(1..N)
    PROVE  /\ order \in Seq(1..N) /\ Len(order) = N
           /\ \A p \in 1..N : \E i \in 1..N : order[i] = p
<1>1. Cardinality(1..N) = N /\ IsFiniteSet(1..N)
  BY FS_Interval
<1>2. order \in [1..N -> 1..N] /\ \A i, j \in 1..N : i # j => order[i] # order[j]
  BY <1>1 DEF SetToSeqs
<1>3. order \in Injection(1..N, 1..N)
  BY <1>2 DEF Injection, IsInjective
<1>4. order \in Surjection(1..N, 1..N)
  BY <1>1, <1>3, FS_Injection
<1>5. QED
  BY <1>2, <1>4 DEF Surjection

\* The loop gives every method its function, and each the place of its own name.
LEMMA LoopBinds ==
    ASSUME NEW dev, Len(dev) \in Nat, NEW table, Len(table) = Len(dev),
           \A i \in 1..Len(dev) : table[i][2] = i,
           NEW order \in SetToSeqs(1..Len(table))
    PROVE  NodeOf(dev, table, order) \in Bindings(dev, table)
<1>0. PICK N \in Nat : N = Len(dev)
  OBVIOUS
<1>1. /\ order \in Seq(1..N) /\ Len(order) = N
      /\ \A p \in 1..N : \E i \in 1..N : order[i] = p
  BY <1>0, OrderFacts
<1>2. PICK f : Turned(f, dev, table, order)
  BY <1>0, <1>1, TurnSteps
<1>3. PICK T : T = {j \in Nat : j <= N => Faithful(f[j], dev, order, j)}
  OBVIOUS
<1>4. 0 \in T
  <2>1. f[0] = Unbound
    BY <1>2 DEF Turned
  <2>2. DOMAIN Unbound = {} /\ Visited(dev, order, 0) = {}
    BY DEF Unbound, Visited
  <2>3. Faithful(f[0], dev, order, 0)
    BY <2>1, <2>2 DEF Faithful
  <2>4. QED
    BY <1>3, <2>3
<1>5. ASSUME NEW j \in T PROVE j + 1 \in T
  <2>1. j \in Nat /\ (j <= N => Faithful(f[j], dev, order, j))
    BY <1>3, <1>5
  <2>2. ASSUME j + 1 <= N PROVE Faithful(f[j + 1], dev, order, j + 1)
    <3>1. j + 1 \in 1..N /\ (j + 1) - 1 = j /\ Faithful(f[j], dev, order, j)
      BY <2>1, <2>2
    <3>2. f[j + 1] = Turn(f[j], dev, table, order[j + 1])
      BY <1>1, <1>2, <3>1 DEF Turned
    <3>3. order[j + 1] \in 1..Len(dev)
      BY <1>0, <1>1, <3>1, ElementOfSeq
    <3>4. QED
      BY <2>1, <3>1, <3>2, <3>3, TurnFaithful
  <2>3. QED
    BY <1>3, <2>1, <2>2
<1>6. N \in T
  <2>1. T \in SUBSET Nat
    BY <1>3
  <2>2. QED
    BY <1>4, <1>5, <2>1, Induction
<1>7. PICK g : g = NodeOf(dev, table, order) /\ g = f[N]
  BY <1>1, <1>2 DEF Turned
<1>8. Faithful(g, dev, order, N)
  BY <1>3, <1>6, <1>7
<1>9. Visited(dev, order, N) = Bound(dev)
  <2>1. ASSUME NEW n \in Visited(dev, order, N) PROVE n \in Bound(dev)
    <3>1. PICK i \in 1..N : n = dev[order[i]].name /\ dev[order[i]].method
      BY <2>1 DEF Visited
    <3>2. order[i] \in 1..Len(dev)
      BY <1>0, <1>1, ElementOfSeq
    <3>3. QED
      BY <3>1, <3>2 DEF Bound
  <2>2. ASSUME NEW n \in Bound(dev) PROVE n \in Visited(dev, order, N)
    <3>1. PICK p \in 1..N : n = dev[p].name /\ dev[p].method
      BY <1>0, <2>2 DEF Bound
    <3>2. PICK i \in 1..N : order[i] = p
      BY <1>1
    <3>3. QED
      BY <3>1, <3>2 DEF Visited
  <2>3. QED
    BY <2>1, <2>2
<1>10. /\ DOMAIN g = Bound(dev)
       /\ \A n \in Bound(dev) : g[n] \in 1..Len(table) /\ dev[g[n]].name = n /\ dev[g[n]].method
  BY <1>8, <1>9 DEF Faithful
<1>11. \A n \in Bound(dev) : table[g[n]][2] = g[n]
  BY <1>10
<1>12. PICK t0 \in Partial(dev, table) : t0 = g
  BY <1>0, <1>1, <1>2, <1>7 DEF Turned
<1>13. g \in [Bound(dev) -> 1..Len(table)]
  BY <1>10, <1>12 DEF Partial
<1>14. QED
  BY <1>7, <1>10, <1>11, <1>13 DEF Bindings

\* An instance whose table was read off its list.
Instance(k, tr, dev) == [tr |-> tr, dev |-> dev, objects |-> Found(k, tr, dev)]

Opened(k) ==
    /\ insts[k] = Instance(k, insts[k].tr, insts[k].dev)
    /\ insts[k].tr = "null" => insts[k].dev = NullObjects /\ Ends(m, k)
    /\ IF Null \in Bound(insts[k].dev) THEN nodes[k] = Unbound
       ELSE nodes[k] \in Bindings(insts[k].dev, insts[k].objects)
    /\ Bound(insts[k].dev) \subseteq NodeNames

TableInv ==
    /\ m \in Links(Addresses)
    /\ \A k \in 1..Len(insts) : Opened(k)

\* Sizes of what a device may announce.
LEMMA DeviceSizes ==
    ASSUME NEW dev, dev \in Devices \/ dev = NullObjects
    PROVE  Len(dev) \in 0..MaxObjs
<1>1. CASE dev \in Devices
  <2>1. /\ dev \in Seq([name : Names, method : BOOLEAN])
        /\ Len(dev) <= MaxObjs
    BY <1>1, NodesAssumption
  <2>2. Len(dev) \in Nat
    BY <2>1
  <2>3. QED
    BY <2>1, <2>2, AddressFacts
<1>2. CASE dev = NullObjects
  BY <1>2, NullObjectsFacts
<1>3. QED
  BY <1>1, <1>2

\* A new instance gets the table of what its own device announced, and the other
\* instances of the null transport keep their ends.
LEMMA OpenTable ==
    ASSUME NodeInv, TableInv, NEW tr \in {"null", "serial"}, NEW dev,
           dev \in (IF tr = "null" THEN {NullObjects} ELSE Devices), OpenNode(tr, dev)
    PROVE  TableInv'
<1>1. /\ Typed(insts) /\ Typed(nodes) /\ Len(nodes) = Len(insts)
      /\ Len(insts) \in Nat /\ m \in Links(Addresses)
      /\ \A k \in 1..Len(insts) : Opened(k)
  BY AppendAny DEF NodeInv, TableInv
<1>2. Len(dev) \in 0..MaxObjs
  BY DeviceSizes
<1>3. PICK n \in 1..MaxInsts : n = Len(insts) + 1
  BY <1>1, AddressFacts DEF OpenNode
<1>4. PICK l : l = AddAll(INIT_LIST_HEAD(m, Head0(n)), Head0(n), Found(n, tr, dev))
  OBVIOUS
<1>5. /\ l \in Links(Addresses)
      /\ Listed(l, Head0(n)) = Found(n, tr, dev)
      /\ \A j \in 1..MaxInsts : j # n => /\ l.next[Head0(j)] = m.next[Head0(j)]
                                         /\ l.prev[Head0(j)] = m.prev[Head0(j)]
      /\ tr = "null" /\ dev = NullObjects => Ends(l, n)
  BY <1>1, <1>2, <1>4, OpenedTable
<1>6. PICK r : r = Instance(n, tr, dev)
  OBVIOUS
<1>7. m' = l /\ insts' = Append(insts, r)
  <2>1. r = [tr |-> tr, dev |-> dev, objects |-> Listed(l, Head0(n))]
    BY <1>5, <1>6 DEF Instance
  <2>2. QED
    BY <1>3, <1>4, <2>1 DEF OpenNode
<1>8. PICK f : nodes' = Append(nodes, f)
               /\ IF Null \in Bound(dev) THEN f = Unbound
                  ELSE f \in Bindings(dev, Found(n, tr, dev))
  <2>1. CASE Null \in Bound(dev)
    BY <2>1 DEF OpenNode
  <2>2. CASE Null \notin Bound(dev)
    <3>1. PICK table : table = Found(n, tr, dev)
      OBVIOUS
    <3>2. \E order \in SetToSeqs(1..Len(table)) :
              nodes' = Append(nodes, NodeOf(dev, table, order))
      BY <1>3, <1>4, <1>5, <2>2, <3>1 DEF OpenNode
    <3>3. Len(table) = Len(dev) /\ \A j \in 1..Len(dev) : table[j][2] = j
      BY <1>2, <3>1 DEF Found
    <3>4. \A order \in SetToSeqs(1..Len(table)) : NodeOf(dev, table, order) \in Bindings(dev, table)
      BY <1>2, <3>3, LoopBinds, AddressFacts
    <3>5. QED
      BY <2>2, <3>1, <3>2, <3>4
  <2>3. QED
    BY <2>1, <2>2
<1>9. /\ Len(insts') = n /\ insts'[n] = r
      /\ \A k \in 1..Len(insts) : insts'[k] = insts[k]
  BY <1>1, <1>3, <1>7, AppendAny
<1>10. nodes'[n] = f /\ \A k \in 1..Len(insts) : nodes'[k] = nodes[k]
  BY <1>1, <1>3, <1>8, AppendAny
<1>11. Opened(n)'
  <2>1. r.tr = tr /\ r.dev = dev /\ r.objects = Found(n, tr, dev)
    BY <1>6 DEF Instance
  <2>2. tr = "null" => dev = NullObjects
    OBVIOUS
  <2>3. tr = "null" => Ends(m', n)
    BY <1>5, <1>7, <2>2
  <2>4. QED
    BY <1>6, <1>8, <1>9, <1>10, <2>1, <2>2, <2>3, BoundNames DEF Opened
<1>12. ASSUME NEW k \in 1..Len(insts) PROVE Opened(k)'
  <2>1. k \in 1..MaxInsts /\ k # n
    BY <1>1, <1>3, AddressFacts
  <2>2. Ends(m, k) => Ends(m', k)
    BY <1>5, <1>7, <2>1 DEF Ends
  <2>3. Opened(k)
    BY <1>1
  <2>4. insts'[k] = insts[k] /\ nodes'[k] = nodes[k]
    BY <1>9, <1>10
  <2>5. QED
    BY <2>2, <2>3, <2>4 DEF Opened
<1>13. \A k \in 1..Len(insts') : Opened(k)'
  <2>1. \A k \in 1..Len(insts') : k = n \/ k \in 1..Len(insts)
    BY <1>1, <1>3, <1>9
  <2>2. QED
    BY <1>11, <1>12, <2>1
<1>14. QED
  BY <1>5, <1>7, <1>13 DEF TableInv

\* A second discovery makes the table it has, and leaves every other instance of
\* the null transport its ends.
LEMMA RediscoverTable ==
    ASSUME NodeInv, TableInv, NEW k \in 1..Len(insts), Rediscover(k)
    PROVE  TableInv'
<1>1. /\ Typed(insts) /\ Len(insts) \in Nat /\ Len(insts) <= MaxInsts
      /\ m \in Links(Addresses) /\ \A j \in 1..Len(insts) : Opened(j)
  BY AppendAny DEF NodeInv, TableInv
<1>2. k \in 1..MaxInsts
  BY <1>1, AddressFacts
<1>3. /\ insts[k].tr = "null" /\ nodes' = nodes
      /\ m' = AddAll(m, Head0(k), Found(k, "null", NullObjects))
      /\ insts' = [insts EXCEPT ![k].objects = Listed(m', Head0(k))]
  BY DEF Rediscover
<1>4. /\ insts[k] = Instance(k, "null", NullObjects) /\ Ends(m, k)
  BY <1>1, <1>3 DEF Opened
<1>5. /\ m' \in Links(Addresses)
      /\ Listed(m', Head0(k)) = Found(k, "null", NullObjects)
      /\ \A j \in 1..MaxInsts : Ends(m, j) => Ends(m', j)
  BY <1>1, <1>2, <1>3, <1>4, RediscoveredTable
<1>6. insts' = insts
  <2>1. [Instance(k, "null", NullObjects) EXCEPT !.objects = Found(k, "null", NullObjects)]
            = Instance(k, "null", NullObjects)
    BY DEF Instance
  <2>2. insts' = [insts EXCEPT ![k] = Instance(k, "null", NullObjects)]
    BY <1>3, <1>4, <1>5, <2>1
  <2>3. PICK S : insts \in Seq(S)
    BY <1>1 DEF Typed
  <2>4. insts = [j \in 1..Len(insts) |-> insts[j]]
    BY <2>3
  <2>5. QED
    BY <1>4, <2>2, <2>4
<1>7. ASSUME NEW j \in 1..Len(insts) PROVE Opened(j)'
  <2>1. j \in 1..MaxInsts
    BY <1>1, AddressFacts
  <2>2. QED
    BY <1>1, <1>3, <1>5, <1>6, <2>1 DEF Opened
<1>8. QED
  BY <1>5, <1>6, <1>7 DEF TableInv

\* Every step of the process.
LEMMA TableStep == NodeInv /\ TableInv /\ [ServerNext]_serverVars => TableInv'
<1> SUFFICES ASSUME NodeInv, TableInv, [ServerNext]_serverVars PROVE TableInv'
  OBVIOUS
<1>1. CASE UNCHANGED nodeVars
  BY <1>1 DEF nodeVars, TableInv, Opened
<1>2. CASE ScriptRediscovers
  BY <1>2, RediscoverTable DEF ScriptRediscovers
<1>3. CASE ScriptOpens
  <2>1. UNCHANGED nodeVars \/ OpenNode("null", NullObjects)
    BY <1>3 DEF ScriptOpens
  <2>2. QED
    BY <1>1, <2>1, OpenTable
<1>4. CASE Discovered
  <2>1. PICK dev \in Devices : OpenNode("serial", dev)
    BY <1>4 DEF Discovered
  <2>2. QED
    BY <2>1, OpenTable
<1>5. QED
  BY <1>1, <1>2, <1>3, <1>4
  DEF ServerNext, Answers, Replied, Boot, Script, FuncInit, ProtectorInit, ProtectorRest, LoaderInit,
      InitLoads, InitEnds, ScriptLoads, ScriptCalls, ScriptSetsProt, ScriptSpins,
      ScriptEnds, Runaway, serverVars

\* What holds of every run of the process.
LEMMA ServerAlways == ServerSpec => [](ProcessInv /\ NodeInv /\ TableInv)
<1>1. ServerInit => TableInv
  <2> SUFFICES ASSUME ServerInit PROVE TableInv
    OBVIOUS
  <2>1. m \in Links(Addresses)
    BY DEF ServerInit, NodesInit, Links
  <2>2. Len(insts) = 0
    BY EmptySeq DEF ServerInit, NodesInit
  <2>3. QED
    BY <2>1, <2>2 DEF TableInv
<1>2. QED
  BY <1>1, ServerStart, ServerStep, TableStep, PTL DEF ServerSpec

\* Every table lists exactly the objects of its instance in the order in which they
\* were announced, although the null transport links its three static objects into
\* one list after another (urpcnull.c, init.lua __urpc_discovery, list.h).
THEOREM TablesCorrect == ServerSpec => []TablesExact
<1>1. TableInv => TablesExact
  <2> SUFFICES ASSUME TableInv, NEW k \in 1..Len(insts)
               PROVE  insts[k].objects = Found(k, insts[k].tr, insts[k].dev)
    BY DEF TablesExact
  <2>1. insts[k] = Instance(k, insts[k].tr, insts[k].dev)
    BY DEF TableInv, Opened
  <2>2. QED
    BY <2>1 DEF Instance
<1>2. QED
  BY <1>1, ServerAlways, PTL

\* The variables of the process keep to their ranges, the count of the VM protector
\* is the one lua_sethook was given, only a script can be held, and a node has
\* functions for names only (lua_perflimits.c 32-55, urpc.c 99-120, init.lua 83-109).
THEOREM ServerTypeCorrect == ServerSpec => []ServerTypeOK
<1>1. ProcessInv /\ NodeInv /\ TableInv => ServerTypeOK
  <2> SUFFICES ASSUME ProcessInv, NodeInv, TableInv PROVE ServerTypeOK
    OBVIOUS
  <2>1. ASSUME NEW k \in 1..Len(nodes) PROVE DOMAIN nodes[k] \subseteq NodeNames \ {Null}
    <3>1. k \in 1..Len(insts) /\ Opened(k)
      BY <2>1 DEF NodeInv, TableInv
    <3>2. CASE Null \in Bound(insts[k].dev)
      BY <3>1, <3>2 DEF Opened, Unbound
    <3>3. CASE Null \notin Bound(insts[k].dev)
      <4>1. DOMAIN nodes[k] = Bound(insts[k].dev)
        BY <3>1, <3>3 DEF Opened, Bindings
      <4>2. QED
        BY <3>1, <3>3, <4>1 DEF Opened
    <3>4. QED
      BY <3>2, <3>3
  <2>2. QED
    BY <2>1 DEF ProcessInv, Held, NodeInv, ServerTypeOK, NodeNames
<1>2. QED
  BY <1>1, ServerAlways, PTL

\* In whatever order pairs() visits the table, and whatever is discovered later, a
\* function of a node packs by the formats of an object of its own name, and every
\* method has one unless one is without a name (init.lua 83-109).
THEOREM CallsCorrect == ServerSpec => []CallsReachNamed
<1>1. NodeInv /\ TableInv => CallsReachNamed
  <2> SUFFICES ASSUME NodeInv, TableInv, NEW k \in 1..Len(nodes)
               PROVE  /\ \A n \in DOMAIN nodes[k] :
                           LET o == Object(k, insts[k].objects[nodes[k][n]])
                           IN  o.name = n /\ o.method
                      /\ Null \notin Bound(insts[k].dev) => DOMAIN nodes[k] = Bound(insts[k].dev)
    BY DEF CallsReachNamed
  <2>1. k \in 1..Len(insts) /\ Opened(k)
    BY DEF NodeInv, TableInv
  <2>2. PICK tr, dev : insts[k] = Instance(k, tr, dev) /\ tr = insts[k].tr /\ dev = insts[k].dev
    BY <2>1 DEF Opened
  <2>3. PICK table : table = Found(k, tr, dev) /\ table = insts[k].objects
    BY <2>2 DEF Instance
  <2>4. CASE Null \in Bound(dev)
    <3>1. DOMAIN nodes[k] = {}
      BY <2>1, <2>2, <2>4 DEF Opened, Unbound
    <3>2. QED
      BY <2>2, <2>4, <3>1
  <2>5. CASE Null \notin Bound(dev)
    <3>1. nodes[k] \in Bindings(dev, table)
      BY <2>1, <2>2, <2>3, <2>5 DEF Opened
    <3>2. /\ nodes[k] \in [Bound(dev) -> 1..Len(table)]
          /\ \A n \in Bound(dev) :
               dev[table[nodes[k][n]][2]].name = n /\ dev[table[nodes[k][n]][2]].method
      BY <3>1 DEF Bindings
    <3>3. ASSUME NEW n \in DOMAIN nodes[k]
          PROVE  /\ Object(k, insts[k].objects[nodes[k][n]]).name = n
                 /\ Object(k, insts[k].objects[nodes[k][n]]).method
      <4>1. n \in Bound(dev)
        BY <3>2
      <4>2. Object(k, insts[k].objects[nodes[k][n]]) = dev[table[nodes[k][n]][2]]
        BY <2>2, <2>3 DEF Object
      <4>3. QED
        BY <3>2, <4>1, <4>2
    <3>4. QED
      BY <2>2, <3>2, <3>3
  <2>6. QED
    BY <2>4, <2>5
<1>2. QED
  BY <1>1, ServerAlways, PTL
====
