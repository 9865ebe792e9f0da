------------------------------ MODULE EventRules ------------------------------
(***************************************************************************)
(* What an event is called and who hears of it: functions without state,   *)
(* from the 16 bits of a zone's register to the sentence in a notification *)
(* (build_event in the agent, _handle_event and notify_event_users in the  *)
(* backend), and the comparison by which the agent decides that the lists  *)
(* the backend answers have changed.                                       *)
(***************************************************************************)
EXTENDS Integers, Sequences

CONSTANT None  \* no row, no default

-------------------------------------------------------------------------------
(* decode_zone_register: two codes, the one of higher priority first. *)
Registers == 0 .. 65535
Codes     == 0 .. 255

High(raw) == (raw \div 256) % 256
Low(raw)  == raw % 256

(* build_event: a register whose high byte is 0 has one code. *)
PrimaryCode(raw)   == IF High(raw) # 0 THEN High(raw) ELSE Low(raw)
SecondaryCode(raw) == IF High(raw) # 0 THEN Low(raw) ELSE 0

(* status_for: what config.yaml calls a code, or "default", or the number. *)
StatusFor(config, code) ==
  IF code \in DOMAIN config.codes THEN config.codes[code]
  ELSE IF config.default # None THEN config.default
  ELSE [event_type |-> "unknown", label |-> code]

(* _handle_event: an enabled row of event_codes overrules the agent. *)
Effective(row, said) ==
  IF row # None /\ row.enabled THEN [event_type |-> row.event_type, label |-> row.label]
                               ELSE said

(* What the zone, the console and a notification say of a register. *)
Shown(config, rows, raw) ==
  Effective(rows[PrimaryCode(raw)], StatusFor(config, PrimaryCode(raw)))

(* The end of _handle_event: only what is shown anew is notified. *)
Notifies(was, now) == was.event_type # now.event_type \/ was.label # now.label

-------------------------------------------------------------------------------
(* zones_changed and objects_changed: lists of [key, settings], settings   *)
(* being what __eq__ compares (of an object, not its name).  They are      *)
(* looked up by their key, where the last one wins.                        *)
Keys(list)     == {list[i].key : i \in DOMAIN list}
Elements(list) == {list[i] : i \in DOMAIN list}

Last(list, k) ==
  LET i == CHOOSE n \in DOMAIN list :
             list[n].key = k /\ \A m \in DOMAIN list : list[m].key = k => m <= n
  IN  list[i]

Changed(old, new) ==
  \/ Len(old) # Len(new)
  \/ Keys(old) # Keys(new)
  \/ \E k \in Keys(old) : Last(old, k) # Last(new, k)

-------------------------------------------------------------------------------
(* Notifications: a user's preferences for an object are a row of switches *)
(* or None.                                                                *)
Severities  == {"critical", "warning", "info"}
Preferences == [{"enabled"} \cup Severities -> BOOLEAN]

Severity(event_type) ==
  CASE event_type = "alarm" -> "critical"
    [] event_type \in {"fault", "attention", "disabled"} -> "warning"
    [] OTHER -> "info"

(* _visible_object_ids: an administrator sees every object, any other user *)
(* those of user_objects (access).                                         *)
Visible(user, access) == user.role = "admin" \/ access

(* notify_event_users: an active user who may see the object or has set    *)
(* preferences for it, which outlive the access they were set under.       *)
Hears(user, pref, access, event_type) ==
  /\ user.active /\ (Visible(user, access) \/ pref # None)
  /\ pref # None => pref["enabled"] /\ pref[Severity(event_type)]

(* list_notification_preferences: the objects a user sees, with defaults   *)
(* for those without a row, and for all of them while the table of test    *)
(* runs, which the query also selects from, is empty.  None: not listed.   *)
Defaults == [f \in {"enabled"} \cup Severities |-> f # "info"]
Listed(user, pref, access, runs) ==
  IF ~Visible(user, access) THEN None
  ELSE IF pref # None /\ runs # {} THEN pref ELSE Defaults
===============================================================================
