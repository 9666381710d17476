----------------------------- MODULE MCSources ------------------------------
EXTENDS Sources

Mdm(type, data, nm, size) ==
    [type |-> type, data |-> data, name |-> nm, ap |-> size, bp |-> size]
MCMdmEvents ==
    {Mdm("START", 0, "", 0), Mdm("END", 3, "", -1), Mdm("END", 2, "", 30),
     Mdm("RESET", 0, "", 0), Mdm("INFO", 2, "TFT", 3), Mdm("STATS", 1, "OTHER", 3)}

Pkt(short, type, fabric, att) ==
    [id |-> 0, short |-> short, type |-> type, low |-> TRUE, fabric |-> fabric,
     data1 |-> IF fabric THEN 1 ELSE 0, att |-> att]
MCKctPackets ==
    {Pkt(TRUE, 0, FALSE, {}), Pkt(FALSE, 3, FALSE, {}),
     Pkt(FALSE, 2, TRUE, {"filelist"}), Pkt(FALSE, 0, FALSE, {"kmsg"})}

Call(via, count, event, type, low, att) ==
    [via |-> via, count |-> count, typed |-> TRUE, event |-> event, type |-> type,
     letter |-> "e", low |-> low, att |-> att]
MCLctCalls ==
    {Call("c", 8, TRUE, 1, TRUE, {"scu"}), Call("jni", 9, TRUE, 1, FALSE, {}),
     Call("cli", 1, FALSE, 2, FALSE, {}), Call("cli", 1, TRUE, 2, FALSE, {})}
MCLogs == {"aplog", "console", "ftrace", "scu"}

B(mdm, up, kct, lct, flip, fail, kill, boot) ==
    [mdm |-> mdm, up |-> up, kct |-> kct, lct |-> lct, flip |-> flip, fail |-> fail,
     kill |-> kill, boot |-> boot]
Sys(off, nb, enabled, lct, bounds) ==
    [off |-> off, tcs |-> TRUE, nb |-> nb, enabled |-> enabled, library |-> lct,
     debuggable |-> TRUE, bounds |-> bounds]

(* Dumps with failures, kills and reboots; the two sockets; all sources;    *)
(* the monitors' threads; no telephony, no modem manager.                   *)
MCSystems ==
    {Sys(FALSE, 1, TRUE, TRUE, b) :
        b \in {B(2, 0, 0, 0, 0, 1, 0, 1), B(2, 0, 0, 0, 0, 0, 1, 0),
               B(0, 0, 2, 0, 1, 1, 0, 0), B(0, 0, 0, 2, 1, 1, 0, 0),
               B(1, 0, 1, 1, 0, 0, 0, 0), B(0, 3, 0, 0, 1, 0, 0, 0)}}
    \cup {Sys(FALSE, 3, TRUE, FALSE, B(2, 0, 0, 0, 0, 0, 0, 1)),
          Sys(TRUE, 1, TRUE, FALSE, B(1, 0, 0, 1, 0, 0, 0, 0)),
          Sys(FALSE, 1, FALSE, TRUE, B(1, 0, 0, 1, 0, 0, 0, 0))}
=============================================================================
