---- MODULE AuraServer ----
(* The server process (ioserver/main.c): it registers its Lua functions        *)
(* (hooks.c), arms the VM protector (lua_perflimits.c), loads plugins          *)
(* (plugin.c), runs init.lua, a script and perhaps a shell, and then loops for *)
(* ever.  Scripts load plugins, open nodes and call them (UrpcNodes).          *)
(*                                                                             *)
(* A script is any sequence of the operations below; its Lua code is only      *)
(* told apart by what reaches C.                                               *)
EXTENDS UrpcNodes

CONSTANTS
    Configs,    \* config.plugins: orders in which init.lua may load plugins
    Present,    \* plugins that can be read and opened
    Counts,     \* numbers a script passes to aura_setvmprot, or that lie on the stack
    Default,    \* 90000000 in the code
    MaxOps      \* bound: operations of the scripts

ASSUME ServerAssumption ==
    /\ Counts \subseteq Int /\ Default \in Nat \ {0, 1}
    /\ MaxOps \in Nat

VARIABLES
    phase,              \* of main, or "dead"
    interactive,        \* option -i
    base, end, hnext,   \* hooks.c: list of registered functions
    registered,         \* history: functions registered, in order
    count, armed,       \* lua_perflimits.c, and the count lua_sethook was given
    pending,            \* plugins init.lua still has to load
    env,                \* init.lua ran to its end
    loaded, transports, \* dlopened plugins; keys of __urpc_transports
    busy,               \* what holds the script: "nothing", an endless loop in "lua", or a
                        \* wait in C for a device, in "discovery" or for a "reply"
    asked,              \* history: aura_setvmprot was called
    ops

hookVars == <<base, end, hnext, registered>>
protVars == <<count, armed, asked>>
pluginVars == <<pending, env, loaded, transports>>
runVars == <<interactive, busy, ops>>
serverVars == <<phase, hookVars, protVars, pluginVars, runVars, nodeVars>>

Functions0 == {"aura_hooks", "aura_setvmprot", "aura_getvmprot", "do_aura_load_plugin"}

ServerInit ==
    /\ phase = "start" /\ interactive \in BOOLEAN
    /\ base = Null /\ end = Null /\ hnext = [f \in Functions0 |-> Null]
    /\ registered = <<>>
    /\ count = 0 /\ armed = 0 /\ asked = FALSE
    /\ pending \in Configs /\ env = FALSE
    /\ loaded = {} /\ transports = {}
    /\ busy = "nothing" /\ ops = 0
    /\ NodesInit

------------------------------------------------------------------------------
(* main up to the first script.                                                *)

\* Mutant: the new end of the list is not remembered.
FuncRegLost(f) ==
    /\ hnext' = [hnext EXCEPT ![end] = f, ![f] = Null]
    /\ registered' = Append(registered, f)
    /\ UNCHANGED <<base, end>>

FuncReg(f) ==     \* aura_func_reg
    /\ hnext' = [hnext EXCEPT ![end] = f, ![f] = Null]
    /\ end' = f
    /\ registered' = Append(registered, f)
    /\ UNCHANGED base

FuncInit ==       \* aura_func_init
    /\ phase = "start" /\ phase' = "protector"
    /\ base' = "aura_hooks" /\ end' = "aura_hooks"
    /\ registered' = <<"aura_hooks">>
    /\ UNCHANGED <<hnext, protVars, pluginVars, runVars, nodeVars>>

\* Mutant: the count is stored, the hook is not set.
SetupUnarmed(n) == count' = n /\ UNCHANGED armed

Setup(n) == count' = n /\ armed' = n     \* aura_setup_vm_protection

ProtectorInit ==
    /\ phase = "protector" /\ phase' = "getter"
    /\ Setup(Default)
    /\ FuncReg("aura_setvmprot")
    /\ UNCHANGED <<asked, pluginVars, runVars, nodeVars>>

ProtectorRest ==  \* the second round of aura_func_reg_list
    /\ phase = "getter" /\ phase' = "loader"
    /\ FuncReg("aura_getvmprot")
    /\ UNCHANGED <<protVars, pluginVars, runVars, nodeVars>>

LoaderInit ==
    /\ phase = "loader" /\ phase' = "init"
    /\ FuncReg("do_aura_load_plugin")
    /\ UNCHANGED <<protVars, pluginVars, runVars, nodeVars>>

------------------------------------------------------------------------------
(* Scripts: where one goes on when it ends or raises an error.                 *)

Following ==
    IF phase = "init" THEN "file"
    ELSE IF phase = "file" /\ interactive THEN "shell" ELSE "loop"

Raise == phase' = IF phase = "shell" THEN "shell" ELSE Following

\* do_aura_load_plugin: nothing for a file that cannot be opened; the framework
\* starts with a new table; a transport without it dies of a symbol that is
\* looked up when its init calls it.
LoadPlugin(p) ==
    IF p \notin Present THEN UNCHANGED <<loaded, transports, phase>>
    ELSE /\ loaded' = loaded \cup {p}
         /\ CASE p = "urpc" -> transports' = {} /\ UNCHANGED phase
              [] p \in {"null", "serial"} /\ "urpc" \in loaded ->
                     transports' = transports \cup {p} /\ UNCHANGED phase
              [] p \in {"null", "serial"} /\ "urpc" \notin loaded ->
                     phase' = "dead" /\ UNCHANGED transports
              [] OTHER -> UNCHANGED <<transports, phase>>

InitLoads ==
    /\ phase = "init" /\ pending # <<>>
    /\ LoadPlugin(Head(pending))
    /\ pending' = Tail(pending)
    /\ UNCHANGED <<hookVars, protVars, env, runVars, nodeVars>>

InitEnds ==       \* or stops in an error, with what it has not defined missing
    /\ phase = "init"
    /\ env' = (pending = <<>>)
    /\ phase' = Following
    /\ pending' = <<>>
    /\ UNCHANGED <<hookVars, protVars, loaded, transports, runVars, nodeVars>>

Running == phase \in {"file", "shell"} /\ busy = "nothing"
Op == Running /\ ops < MaxOps /\ ops' = ops + 1 /\ UNCHANGED interactive

ScriptLoads ==
    /\ Op
    /\ \E p \in Present : LoadPlugin(p)
    /\ UNCHANGED <<hookVars, protVars, pending, env, busy, nodeVars>>

ScriptOpens ==
    /\ Op
    /\ \E tr \in {"null", "serial"} :
        IF ~env \/ "urpc" \notin loaded THEN Raise /\ UNCHANGED <<busy, nodeVars>>
        ELSE \/ /\ tr = "null" /\ tr \in transports
                /\ OpenNode(tr, NullObjects)
                /\ UNCHANGED <<phase, busy>>
             \/ /\ tr = "serial" /\ tr \in transports /\ Len(insts) < MaxInsts
                /\ busy' = "discovery"
                /\ UNCHANGED <<phase, nodeVars>>
             \/ UNCHANGED <<phase, busy, nodeVars>>  \* not available, or open failed: nil
    /\ UNCHANGED <<hookVars, protVars, pluginVars>>

\* urpc_serial_discovery comes back, if ever: nothing in C limits the wait.
Discovered ==
    /\ busy = "discovery" /\ busy' = "nothing"
    /\ \E dev \in Devices :
        /\ OpenNode("serial", dev)
        /\ IF Null \in Bound(dev) THEN Raise ELSE UNCHANGED phase
    /\ UNCHANGED <<hookVars, protVars, pluginVars, interactive, ops>>

ScriptRediscovers ==    \* of the null transport; SerialLink has the other
    /\ Op
    /\ \E k \in 1..Len(insts) : Rediscover(k)
    /\ UNCHANGED <<phase, hookVars, protVars, pluginVars, busy>>

ScriptCalls ==    \* the call itself is UrpcCodec and SerialLink
    /\ Op
    /\ \E k \in 1..Len(nodes) :
        /\ DOMAIN nodes[k] # {}
        /\ phase' = IF Clobbered(k) THEN "dead" ELSE phase     \* i is no userdata
        /\ \/ UNCHANGED busy
           \/ insts[k].tr = "serial" /\ ~Clobbered(k) /\ busy' = "reply"
    /\ UNCHANGED <<hookVars, protVars, pluginVars, nodeVars>>

\* urpc_serial_call comes back, if ever.
Replied ==
    /\ busy = "reply" /\ busy' = "nothing"
    /\ UNCHANGED <<phase, hookVars, protVars, pluginVars, interactive, ops, nodeVars>>

\* lua_tonumber(L, index) with one argument n on the stack: past the top is nil,
\* index 0 is the slot over the top, a deep index is below the frame.
StackNumber(index, n) ==
    IF index \in {1, -1} THEN {n} ELSE IF index > 1 THEN {0} ELSE Counts

ScriptSetsProt == \* aura_setvmprot(n) reads the stack at count
    /\ Op
    /\ \E n \in Counts : \E v \in StackNumber(count, n) : Setup(v)
    /\ asked' = TRUE
    /\ UNCHANGED <<phase, hookVars, pluginVars, busy, nodeVars>>

ScriptSpins ==
    /\ Op
    /\ busy' = "lua"
    /\ UNCHANGED <<phase, hookVars, protVars, pluginVars, nodeVars>>

Runaway ==        \* handle_runaway; a count of 0 never comes up, and C is not counted
    /\ busy = "lua" /\ armed > 0
    /\ Raise
    /\ busy' = "nothing"
    /\ UNCHANGED <<hookVars, protVars, pluginVars, interactive, ops, nodeVars>>

ScriptEnds ==     \* its last line, or an error; the shell ends with its input
    /\ Running
    /\ phase' = Following
    /\ UNCHANGED <<hookVars, protVars, pluginVars, runVars, nodeVars>>

------------------------------------------------------------------------------
Boot == FuncInit \/ ProtectorInit \/ ProtectorRest \/ LoaderInit \/ InitLoads \/ InitEnds
Script ==
    \/ ScriptLoads \/ ScriptOpens \/ ScriptRediscovers \/ ScriptCalls
    \/ ScriptSetsProt \/ ScriptSpins \/ ScriptEnds
    \/ Runaway

Answers == Discovered \/ Replied

ServerNext == Boot \/ Script \/ Answers

\* main goes on, the VM counts, a script that nothing holds ends.  No device has to
\* answer.
ServerSpec ==
    ServerInit /\ [][ServerNext]_serverVars /\ WF_serverVars(Boot) /\ WF_serverVars(Script)

------------------------------------------------------------------------------
\* Every variable keeps to its range; only a script can be held, and a node has a
\* function only for a name.
ServerTypeOK ==
    /\ phase \in {"start", "protector", "getter", "loader", "init", "file", "shell", "loop", "dead"}
    /\ {base, end} \subseteq Functions0 \cup {Null}
    /\ registered \in Seq(Functions0)
    /\ count \in Int /\ armed = count
    /\ busy \in {"nothing", "lua", "discovery", "reply"}
    /\ busy # "nothing" => phase \in {"file", "shell"}
    /\ loaded \subseteq Present
    /\ transports \subseteq loaded \cap {"null", "serial"}
    /\ (transports # {} => "urpc" \in loaded)
    /\ Len(nodes) = Len(insts) /\ Len(insts) <= MaxInsts
    /\ \A k \in 1..Len(nodes) : \A n \in DOMAIN nodes[k] :
           n \in Names \cup {"hostname", "packnumbers", "unpacknumbers"} /\ n # Null
    /\ ops \in 0..MaxOps

\* The list that aura_hooks walks, from base through next, holds every function
\* registered so far, each once and in order, and ends.
HelpComplete ==
    phase # "start" =>
        /\ base = registered[1] /\ end = registered[Len(registered)]
        /\ hnext[end] = Null
        /\ \A k \in 1..Len(registered) - 1 : hnext[registered[k]] = registered[k + 1]
        /\ \A j, k \in 1..Len(registered) : registered[j] = registered[k] => j = k

====
