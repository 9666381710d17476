---------------------------- MODULE MCEventWatch ----------------------------
(* EventWatch for TLC: four watchers that between them give, leave out and  *)
(* exceed every parameter.                                                  *)
EXTENDS EventWatch

Plain ==
    [source |-> "kmsg", prios |-> {0}, nonblock |-> FALSE,
     root |-> TRUE, start |-> TRUE,
     end |-> FALSE, validation |-> FALSE, body |-> FALSE,
     min_level |-> Absent, max_level |-> 2, max_items |-> Absent,
     max_records |-> 1,
     flush_timeout |-> 2, mailbox_max |-> 1, max_suspend_records |-> Absent,
     max_event_count |-> 1, max_event_interval |-> 2,
     event_suspend_interval |-> Absent, keep_last |-> 1,
     attachment |-> [src |-> FALSE, dst |-> FALSE, exec |-> FALSE]]
MCConfigs ==
    {Plain,
     \* records of several items, closed by an end; a limit over all events
     [Plain EXCEPT !.source = "uevent", !.prios = {1}, !.end = TRUE,
                   !.body = TRUE, !.max_items = 2, !.max_records = 2, !.max_event_interval = 0,
                   !.mailbox_max = 9,
                   !.attachment = [src |-> TRUE, dst |-> TRUE, exec |-> TRUE]],
     \* messages below min_level, and suspension
     [Plain EXCEPT !.source = "logd", !.prios = {0, 1}, !.min_level = 1,
                   !.event_suspend_interval = 1,
                   !.max_suspend_records = 1, !.max_event_count = 9,
                   !.keep_last = 2],
     \* validation, messages above max_level (which wraps), and suspension
     \* without a store, as setMaxSuspendRecords leaves it
     [Plain EXCEPT !.nonblock = TRUE, !.prios = {0, 7}, !.max_level = 258,
                   !.validation = TRUE,
                   !.max_items = 2, !.event_suspend_interval = 1,
                   !.max_suspend_records = 9, !.mailbox_max = Absent],
     \* refused
     [Plain EXCEPT !.start = FALSE]}
=============================================================================
