---------------------------- MODULE Ingredients ----------------------------
(***************************************************************************)
(* The two files crashlogd keeps of what the device is made of:            *)
(* ingredients.txt (crashlog/ingredients.c over the lists of config.c and  *)
(* the properties of getbulkprops.c) and the iptrak file                   *)
(* (intel_specific/iptrak.c).  check_ingredients_file is called by the main *)
(* thread at the start, at each uptime tick and before an event is raised, *)
(* and by the threads that wait for the version of a modem; nothing        *)
(* protects old_values between them, and a list one thread reads may be    *)
(* freed by another.  The daemon may be killed at any step.                *)
(*                                                                         *)
(* The configuration has one key per modem and one per property; a value   *)
(* is Unknown, a short text, or Long, a bulk property no line of           *)
(* init_config_file can hold.  The section of the modems does not change,  *)
(* and the configuration file exists; its keys and lists find their memory.*)
(***************************************************************************)
EXTENDS Integers, FiniteSets

CONSTANTS
    Threads, main,  \* threads that check the file; the main thread
    Modems, Props,  \* keys of the configuration
    Names,          \* versions a modem may report
    MaxChanges,     \* bound: changes of a property of the system
    MaxIKills,       \* bound: ends of the daemon
    MaxFailures     \* bound: files that could not be read or written

ASSUME IngredientsAssumption ==
    /\ main \in Threads /\ Modems \cap Props = {}
    /\ Names \cap {"unknown", "long", "piece", "absent", "null", "no file"} = {}
    /\ {MaxChanges, MaxIKills, MaxFailures} \subseteq Nat

VARIABLES
    prop,       \* the properties of the system, by key
    value,      \* modem_config[].value
    old,        \* old_values: the list, or Null
    freed,      \* old_values points to a list that was freed
    file,       \* ingredients.txt: NoText, Empty or the values of the keys
    step,       \* where each thread is in check_ingredients_file
    new,        \* new_values of each thread
    ptr,        \* the list a thread compares with
    dangling,   \* threads whose ptr was freed under them
    mainat,     \* what the main thread does next: start or loop
    need_update, ipready, ipfile,  \* of iptrak: all properties are known; what
                                   \* its file holds
    changes, kills, failures,
    overlap,    \* history: two threads were in the check together
    lost,       \* history: how names may have left the file: killed within
                \* dump_config, full partition, unread at the first check
    had         \* history: modems whose name the file has held

config == <<value, old, freed, file, step, new, ptr, dangling, overlap, had>>
iptrak == <<need_update, ipfile>>
limits == <<changes, kills, failures>>
ivars  == <<prop, config, mainat, iptrak, ipready, limits, lost>>

Keys    == Modems \cup Props
Unknown == "unknown"
Long    == "long"
Null    == [k \in Keys |-> "null"]     \* no list
NoText  == [k \in Keys |-> "no file"]
Empty   == [k \in Keys |-> "absent"]   \* a file, or a list, without keys

Failing == /\ failures < MaxFailures /\ failures' = failures + 1
           /\ UNCHANGED <<changes, kills>>

----------------------------------------------------------------------------
(* config.c and ingredients.c. *)

\* init_config_file reads a line in pieces of 124 characters: a long value that
\* dump_config wrote comes back as another one.
init_config_file(v) == IF v = Long THEN "piece" ELSE v

\* generate_section_kv, for each line: the list has the keys of the text.
generate_section_kv(text) == [k \in Keys |-> init_config_file(text[k])]

\* No list when the file is missing, or cannot be opened or held.
parse_ingredients_file(ok) ==
    IF file = NoText \/ ~ok THEN Null ELSE generate_section_kv(file)

\* get_value finds the key in the list.
Found(L, k) == L # Null /\ L[k] # "absent"

\* load_modem_config: the names of the last file, where it has them.
load_modem_config_Not(L) == value
load_modem_config(L) ==
    [m \in Modems |-> IF Found(L, m) THEN L[m] ELSE value[m]]

\* update_modem_name: a property that is not known changes nothing.
update_modem_name(m) ==
    IF prop[m] \in {Unknown, value[m]} THEN value ELSE [value EXCEPT ![m] = prop[m]]
Updates(m) == update_modem_name(m) # value

\* The text of the properties that match the key.
retrieve_props_json(p) == prop[p]

\* A modem that reports nothing keeps the name it had.
get_modem_property(m) == update_modem_name(m)[m]

fetch_ingredients ==
    [k \in Keys |-> IF k \in Props THEN retrieve_props_json(k) ELSE get_modem_property(k)]

\* Entry of check_ingredients_file in thread t.
Enter(t) ==
    /\ step' = [step EXCEPT ![t] = IF old = Null THEN "load" ELSE "fetch"]
    /\ overlap' = (overlap \/ \E u \in Threads \ {t} : step[u] # "out")

\* The first check of the daemon reads what the last one left.
Load(t) ==
    /\ step[t] = "load" /\ step' = [step EXCEPT ![t] = "fetch"]
    /\ \E ok \in IF file = NoText THEN {TRUE} ELSE BOOLEAN :
          /\ old' = parse_ingredients_file(ok)
          /\ IF ok THEN UNCHANGED <<limits, lost>>
                   ELSE Failing /\ lost' = lost \cup {"unread"}
    /\ value' = load_modem_config(old')
    /\ freed' = FALSE
    /\ UNCHANGED <<prop, file, new, ptr, dangling, mainat, iptrak, ipready, overlap, had>>

Fetch(t) ==
    /\ step[t] = "fetch" /\ step' = [step EXCEPT ![t] = "compare"]
    /\ new' = [new EXCEPT ![t] = fetch_ingredients]
    /\ value' = [m \in Modems |-> fetch_ingredients[m]]
    /\ ptr' = [ptr EXCEPT ![t] = old]
    /\ dangling' = IF freed THEN dangling \cup {t} ELSE dangling
    /\ UNCHANGED <<prop, old, freed, file, mainat, iptrak, ipready, limits, overlap, lost, had>>

\* The configuration is not read: the check ends.
NoConfig(t) ==
    /\ step[t] = "fetch" /\ step' = [step EXCEPT ![t] = "out"] /\ Failing
    /\ UNCHANGED <<prop, value, old, freed, file, new, ptr, dangling, mainat, iptrak,
                   ipready, overlap, lost, had>>

\* cmp_config of the two lists.
cmp_config(L, M) == L = Null \/ L # M

\* A list that was freed compares in any way.
Compare(t) ==
    /\ step[t] = "compare"
    /\ \E differs \in IF t \in dangling THEN BOOLEAN ELSE {cmp_config(ptr[t], new[t])} :
          /\ step' = [step EXCEPT ![t] = IF differs THEN "dump" ELSE "out"]
          /\ new' = IF differs THEN new ELSE [new EXCEPT ![t] = Null]
    /\ ptr' = [ptr EXCEPT ![t] = Null] /\ dangling' = dangling \ {t}
    /\ UNCHANGED <<prop, value, old, freed, file, mainat, iptrak, ipready,
                   limits, overlap, lost, had>>

\* dump_config: the file is emptied, then written; when it does not open, the new
\* list is dropped and the old one kept.
OpenFile(t) ==
    /\ step[t] = "dump"
    /\ \/ /\ file' = Empty /\ step' = [step EXCEPT ![t] = "write"]
          /\ UNCHANGED <<new, limits>>
       \/ /\ step' = [step EXCEPT ![t] = "out"] /\ new' = [new EXCEPT ![t] = Null]
          /\ Failing /\ UNCHANGED file
    /\ UNCHANGED <<prop, value, old, freed, ptr, dangling, mainat, iptrak, ipready,
                   overlap, lost, had>>

\* dump_config does not look at what fprintf and fclose return: on a full
\* partition it leaves out the keys at the end, whichever the configuration puts
\* there, and the caller goes on as after any dump: the old list is freed and the
\* new one takes its place.
dump_config(t, left) == [k \in Keys |-> IF k \in left THEN "absent" ELSE new[t][k]]
WriteFile(t) ==
    /\ step[t] = "write" /\ step' = [step EXCEPT ![t] = "free"]
    /\ \E left \in SUBSET Keys :
          /\ file' = dump_config(t, left)
          /\ IF left = {} THEN UNCHANGED <<limits, lost>>
                          ELSE Failing /\ lost' = lost \cup {"full"}
    /\ had' = had \cup {m \in Modems : file'[m] \in Names}
    /\ UNCHANGED <<prop, value, old, freed, new, ptr, dangling, mainat, iptrak, ipready,
                   overlap>>

\* free_config_file under whoever compares with the list.
FreeOld(t) ==
    /\ step[t] = "free" /\ ~freed /\ step' = [step EXCEPT ![t] = "assign"]
    /\ freed' = (old # Null)
    /\ dangling' = dangling \cup
           {u \in Threads : step[u] = "compare" /\ ptr[u] = old /\ old # Null}
    /\ UNCHANGED <<prop, value, old, file, new, ptr, mainat, iptrak, ipready, limits,
                   overlap, lost, had>>

AssignOld(t) ==
    /\ step[t] = "assign" /\ step' = [step EXCEPT ![t] = "out"]
    /\ old' = new[t] /\ freed' = FALSE /\ new' = [new EXCEPT ![t] = Null]
    /\ UNCHANGED <<prop, value, file, ptr, dangling, mainat, iptrak, ipready,
                   limits, overlap, lost, had>>

----------------------------------------------------------------------------
(* iptrak.c. *)

\* What the file before tells of a property that is not known: nothing, since "%s"
\* stops at the blank of "IFWI Version".
retrieve_iptrak_properties == Unknown
AllKnown == ipready \/ retrieve_iptrak_properties # Unknown

\* write_iptrak_file: a failure may come before the text, at the opening, or after
\* it, at the change of the file's rights.
write_iptrak_file(ok) ==
    LET text == IF AllKnown THEN "complete" ELSE "partial"
    IN ipfile' \in IF ok THEN {text} ELSE {text, ipfile}

\* What update_iptrak_file returns: nothing was missing and the file was written.
update_iptrak_file(ok) == ok /\ AllKnown

\* check_iptrak_file.
check_iptrak_file(policy) ==
    IF policy = "FORCE_GENERATION" \/ need_update
    THEN \E ok \in BOOLEAN :
            /\ write_iptrak_file(ok)
            /\ need_update' = (policy = "RETRY_ONCE" /\ ~update_iptrak_file(ok))
            /\ IF ok THEN UNCHANGED limits ELSE Failing
    ELSE UNCHANGED <<iptrak, limits>>

\* The policy of an uptime tick that brings an uptime event.
EventPolicy_Required == "ONLY_IF_REQUIRED"
EventPolicy == "FORCE_GENERATION"

----------------------------------------------------------------------------
(* The callers. *)

\* early_check: iptrak, then the ingredients.
Begin ==
    /\ mainat = "start" /\ mainat' = "loop" /\ step[main] = "out"
    /\ check_iptrak_file("RETRY_ONCE")
    /\ Enter(main)
    /\ UNCHANGED <<prop, value, old, freed, file, new, ptr, dangling, ipready, lost, had>>

\* update_uptime_history, at a tick with an uptime event or without.
Tick(policy) ==
    /\ mainat = "loop" /\ step[main] = "out"
    /\ check_iptrak_file(policy)
    /\ Enter(main)
    /\ UNCHANGED <<prop, value, old, freed, file, new, ptr, dangling, mainat, ipready, lost, had>>

TickEvent == Tick(EventPolicy)
TickPlain == Tick("ONLY_IF_REQUIRED")

\* conditional_ingredients_refresh of raise_event, and fetch_modem_name of a
\* thread that waits for the version: the first name that changes brings a check.
Refresh(t) ==
    /\ step[t] = "out" /\ mainat = "loop"
    /\ \E m \in Modems : Updates(m) /\ value' = update_modem_name(m)
    /\ Enter(t)
    /\ UNCHANGED <<prop, old, freed, file, new, ptr, dangling, mainat, iptrak, ipready,
                   limits, lost, had>>

\* The daemon ends, killed or by a list freed twice, and is started again.
Dead ==
    /\ kills' = kills + 1
    /\ lost' = IF \E t \in Threads : step[t] = "write" THEN lost \cup {"killed"} ELSE lost
    /\ value' = [m \in Modems |-> Unknown] /\ old' = Null /\ freed' = FALSE
    /\ step' = [t \in Threads |-> "out"] /\ ptr' = [t \in Threads |-> Null]
    /\ new' = [t \in Threads |-> Null] /\ dangling' = {}
    /\ mainat' = "start" /\ need_update' = TRUE
    /\ UNCHANGED <<prop, file, ipready, ipfile, changes, failures, overlap, had>>

IKill == kills < MaxIKills /\ Dead
DoubleFree == kills <= MaxIKills /\ freed /\ (\E t \in Threads : step[t] = "free") /\ Dead

\* The modem reports a version or goes down; the other properties change.
Change ==
    /\ changes < MaxChanges /\ changes' = changes + 1
    /\ \/ \E m \in Modems, n \in Names \cup {Unknown} :
             n # prop[m] /\ prop' = [prop EXCEPT ![m] = n] /\ UNCHANGED ipready
       \/ \E p \in Props : /\ prop' = [prop EXCEPT ![p] = IF @ = Long THEN Unknown ELSE Long]
                           /\ ipready' = TRUE
    /\ UNCHANGED <<config, mainat, iptrak, kills, failures, lost>>

IInit ==
    /\ prop = [k \in Keys |-> Unknown] /\ value = [m \in Modems |-> Unknown]
    /\ old = Null /\ freed = FALSE /\ file = NoText
    /\ step = [t \in Threads |-> "out"] /\ new = [t \in Threads |-> Null]
    /\ ptr = new /\ dangling = {} /\ mainat = "start"
    /\ need_update = TRUE /\ ipready = FALSE /\ ipfile = "none"
    /\ changes = 0 /\ kills = 0 /\ failures = 0
    /\ overlap = FALSE /\ lost = {} /\ had = {}

Work(t) == \/ Load(t) \/ Fetch(t) \/ NoConfig(t) \/ Compare(t) \/ OpenFile(t) \/ WriteFile(t)
           \/ FreeOld(t) \/ AssignOld(t)

INext ==
    \/ \E t \in Threads : Work(t) \/ Refresh(t)
    \/ Begin \/ TickEvent \/ TickPlain
    \/ IKill \/ DoubleFree \/ Change

\* The threads run, init starts the daemon again, and time goes on; an event of
\* the modem or of the user is not owed.
IFairness ==
    /\ WF_ivars(Begin)
    /\ SF_ivars(TickEvent)
    /\ \A t \in Threads : WF_ivars(Work(t))

ISpec == IInit /\ [][INext]_ivars /\ IFairness

----------------------------------------------------------------------------
(* Properties. *)

\* A name the file has held of a modem stays in it while the modem is down, through
\* restarts of the daemon and files that do not open for writing: load_modem_config
\* finds it again.  Only a kill within dump_config, a partition that fills up in it,
\* a file that cannot be read at the first check, or two checks at once, may lose it.
NamesKept ==
    file \notin {NoText, Empty} =>
        \A m \in had : file[m] \in Names \/ overlap \/ lost # {}

\* When the properties stop changing, both files end up with them, through kills,
\* reads that fail and files that do not open; a modem that is down keeps its last
\* name.  Two threads in check_ingredients_file at once may leave ingredients.txt
\* behind, and so does a partition that fills up in dump_config: the file is not
\* what old_values says, and it is written again when something changes or after
\* the next start of the daemon.
Current == \A k \in Keys : prop[k] # Unknown => file[k] = prop[k]
Short == "full" \in lost /\ file # old
FilesSettle ==
    <>[](/\ overlap \/ Short \/ Current
         /\ ipready => ipfile = "complete")
=============================================================================
