--------------------------- MODULE EventRulesProofs ---------------------------
(***************************************************************************)
(* Facts about the functions of EventRules, for every register, every list *)
(* and every preference.                                                   *)
(***************************************************************************)
EXTENDS EventRules, FiniteSetTheorems, TLAPS

(* A register has two codes of one byte each. *)
LEMMA CodesOfRegister ==
  ASSUME NEW raw \in Registers
  PROVE  /\ High(raw) \in Codes /\ Low(raw) \in Codes
         /\ raw = 256 * High(raw) + Low(raw)
<1> DEFINE q == raw \div 256
           r == raw % 256
<1>1. raw \in Int /\ 0 <= raw /\ raw < 65536
  BY DEF Registers
<1>2. q \in Int /\ r \in Int /\ 0 <= r /\ r < 256 /\ raw = 256 * q + r
  BY <1>1
<1>3. 0 <= q /\ q < 256
  <2> HIDE DEF q, r
  <2> QED BY <1>1, <1>2
<1>4. q % 256 = q
  <2> HIDE DEF q
  <2> QED BY <1>2, <1>3
<1>5. High(raw) = q /\ Low(raw) = r
  BY <1>4 DEF High, Low
<1> QED
  <2> HIDE DEF q, r
  <2> QED BY <1>2, <1>3, <1>5 DEF Codes

LEMMA SumOfCodes ==
  ASSUME NEW h \in Codes, NEW l \in Codes
  PROVE  /\ h = 0 => 256 * h + l = l
         /\ h # 0 => 256 * h + l # 0
BY DEF Codes

(* The two codes build_event sends tell the register, up to one choice: a  *)
(* single code may have stood in either byte.  Only a register of 0 has no *)
(* code (decode_zone_register, build_event).                               *)
THEOREM CodesTellRegister ==
  ASSUME NEW raw \in Registers
  PROVE  /\ PrimaryCode(raw) \in Codes /\ SecondaryCode(raw) \in Codes
         /\ raw \in {256 * PrimaryCode(raw) + SecondaryCode(raw), PrimaryCode(raw)}
         /\ PrimaryCode(raw) = 0 <=> raw = 0
<1>1. /\ High(raw) \in Codes /\ Low(raw) \in Codes
      /\ raw = 256 * High(raw) + Low(raw)
  BY CodesOfRegister
<1>2. CASE High(raw) = 0
  <2>1. PrimaryCode(raw) = Low(raw) /\ SecondaryCode(raw) = 0 /\ raw = Low(raw)
    BY <1>1, <1>2, SumOfCodes DEF PrimaryCode, SecondaryCode
  <2>2. 0 \in Codes
    BY DEF Codes
  <2> QED BY <1>1, <2>1, <2>2
<1>3. CASE High(raw) # 0
  <2>1. PrimaryCode(raw) = High(raw) /\ SecondaryCode(raw) = Low(raw)
    BY <1>3 DEF PrimaryCode, SecondaryCode
  <2>2. raw # 0
    BY <1>1, <1>3, SumOfCodes
  <2> QED BY <1>1, <1>3, <2>1, <2>2
<1> QED BY <1>2, <1>3

(* A code neither config.yaml nor an enabled row of event_codes knows is    *)
(* given config.yaml's default, so that all such codes look alike: a       *)
(* register that goes from one to another is notified by its primary code  *)
(* only if there is no default (status_for, the end of _handle_event).     *)
THEOREM UnknownCodesLookAlike ==
  ASSUME NEW config, NEW rows, NEW was \in Registers, NEW now \in Registers,
         \A raw \in {was, now} :
           /\ PrimaryCode(raw) \notin DOMAIN config.codes
           /\ rows[PrimaryCode(raw)] # None => ~rows[PrimaryCode(raw)].enabled
  PROVE  Notifies(Shown(config, rows, was), Shown(config, rows, now))
           <=> config.default = None /\ PrimaryCode(was) # PrimaryCode(now)
<1> DEFINE unlisted(code) == IF config.default # None THEN config.default
                             ELSE [event_type |-> "unknown", label |-> code]
<1>1. ASSUME NEW raw \in {was, now}
      PROVE  Shown(config, rows, raw) = unlisted(PrimaryCode(raw))
  BY DEF Shown, Effective, StatusFor
<1>2. /\ Shown(config, rows, was) = unlisted(PrimaryCode(was))
      /\ Shown(config, rows, now) = unlisted(PrimaryCode(now))
  BY <1>1
<1>3. CASE config.default # None
  BY <1>2, <1>3 DEF Notifies
<1>4. CASE config.default = None
  BY <1>2, <1>4 DEF Notifies
<1> QED BY <1>3, <1>4

-------------------------------------------------------------------------------
(* No key is there twice. *)
Unique(list) ==
  \A i, j \in DOMAIN list : list[i].key = list[j].key => i = j

(* In a list without duplicates every key is looked up as it stands. *)
LEMMA LastOfUnique ==
  ASSUME NEW S, NEW list \in Seq(S), Unique(list), NEW i \in DOMAIN list
  PROVE  Last(list, list[i].key) = list[i]
<1> DEFINE k == list[i].key
           P(n) == list[n].key = k /\ \A m \in DOMAIN list : list[m].key = k => m <= n
           c == CHOOSE n \in DOMAIN list : P(n)
<1>1. P(i)
  <2>1. \A m \in DOMAIN list : list[m].key = k => m = i
    BY DEF Unique
  <2>2. i \in Nat
    OBVIOUS
  <2> QED BY <2>1, <2>2
<1>2. c \in DOMAIN list /\ P(c)
  BY <1>1
<1>3. c = i
  BY <1>2 DEF Unique
<1>4. Last(list, k) = list[c]
  BY DEF Last
<1> QED BY <1>3, <1>4

(* Without duplicates a list is as long as it has elements. *)
LEMMA LengthOfUnique ==
  ASSUME NEW S, NEW list \in Seq(S), Unique(list)
  PROVE  Cardinality(Elements(list)) = Len(list)
<1> DEFINE n == Len(list)
<1>1. n \in Nat /\ DOMAIN list = 1 .. n
  OBVIOUS
<1>2. list \in [1 .. n -> Elements(list)]
  BY <1>1 DEF Elements
<1>3. \A i, j \in 1 .. n : list[i] = list[j] => i = j
  BY <1>1 DEF Unique
<1>4. \A e \in Elements(list) : \E i \in 1 .. n : list[i] = e
  BY <1>1 DEF Elements
<1>5. list \in Bijection(1 .. n, Elements(list))
  BY <1>2, <1>3, <1>4 DEF Bijection, Injection, Surjection, IsInjective
<1>6. ExistsBijection(1 .. n, Elements(list))
  BY <1>5 DEF ExistsBijection
<1> QED BY <1>1, <1>6, FS_CountingElements

(* The agent takes over a list (clearing its tracker or restarting pollers) *)
(* exactly if the list says something else, in whatever order the backend   *)
(* answers, provided no key is there twice (zones_changed, objects_changed).*)
THEOREM ChangedIsSeen ==
  ASSUME NEW S, NEW old \in Seq(S), NEW new \in Seq(S), Unique(old), Unique(new)
  PROVE  Changed(old, new) <=> Elements(old) # Elements(new)
<1>1. ASSUME ~Changed(old, new) PROVE Elements(old) = Elements(new)
  <2>1. \A k \in Keys(old) : Last(old, k) = Last(new, k)
    BY <1>1 DEF Changed
  <2>2. Keys(old) = Keys(new)
    BY <1>1 DEF Changed
  <2>3. \A i \in DOMAIN old : \E j \in DOMAIN new : old[i] = new[j]
    <3> TAKE i \in DOMAIN old
    <3>1. PICK j \in DOMAIN new : new[j].key = old[i].key
      BY <2>2 DEF Keys
    <3>2. Last(old, old[i].key) = old[i]
      BY LastOfUnique
    <3>3. Last(new, new[j].key) = new[j]
      BY LastOfUnique
    <3> QED BY <2>1, <3>1, <3>2, <3>3 DEF Keys
  <2>4. \A j \in DOMAIN new : \E i \in DOMAIN old : new[j] = old[i]
    <3> TAKE j \in DOMAIN new
    <3>1. PICK i \in DOMAIN old : old[i].key = new[j].key
      BY <2>2 DEF Keys
    <3>2. Last(old, old[i].key) = old[i]
      BY LastOfUnique
    <3>3. Last(new, new[j].key) = new[j]
      BY LastOfUnique
    <3> QED BY <2>1, <3>1, <3>2, <3>3 DEF Keys
  <2> QED BY <2>3, <2>4 DEF Elements
<1>2. ASSUME Elements(old) = Elements(new) PROVE ~Changed(old, new)
  <2>1. Len(old) = Len(new)
    <3>1. Cardinality(Elements(old)) = Len(old)
      BY LengthOfUnique
    <3>2. Cardinality(Elements(new)) = Len(new)
      BY LengthOfUnique
    <3> QED BY <1>2, <3>1, <3>2
  <2>2. \A i \in DOMAIN old : \E j \in DOMAIN new : old[i] = new[j]
    BY <1>2 DEF Elements
  <2>3. \A j \in DOMAIN new : \E i \in DOMAIN old : new[j] = old[i]
    BY <1>2 DEF Elements
  <2>4. Keys(old) = Keys(new)
    BY <2>2, <2>3 DEF Keys
  <2>5. \A i \in DOMAIN old : Last(old, old[i].key) = Last(new, old[i].key)
    <3> TAKE i \in DOMAIN old
    <3>1. PICK j \in DOMAIN new : old[i] = new[j]
      BY <2>2
    <3>2. Last(old, old[i].key) = old[i]
      BY LastOfUnique
    <3>3. Last(new, new[j].key) = new[j]
      BY LastOfUnique
    <3> QED BY <3>1, <3>2, <3>3
  <2>6. \A k \in Keys(old) : Last(old, k) = Last(new, k)
    BY <2>5 DEF Keys
  <2> QED BY <2>1, <2>4, <2>6 DEF Changed
<1> QED BY <1>1, <1>2

(* With duplicates it may miss a change: of two zones with one number the  *)
(* first may become another while the second stays.                        *)
THEOREM DuplicatesHideChanges ==
  ASSUME NEW a, NEW b, NEW c, a # c
  PROVE  LET at(x) == [key |-> 1, settings |-> x]
             old == <<at(a), at(b)>>
             new == <<at(c), at(b)>>
         IN  ~Changed(old, new) /\ old # new
<1> DEFINE at(x) == [key |-> 1, settings |-> x]
           old == <<at(a), at(b)>>
           new == <<at(c), at(b)>>
<1>1. ASSUME NEW x, NEW list, list = <<at(x), at(b)>>
      PROVE  Len(list) = 2 /\ Keys(list) = {1} /\ Last(list, 1) = at(b)
  <2>1. DOMAIN list = {1, 2} /\ Len(list) = 2 /\ list[1].key = 1 /\ list[2].key = 1
    BY <1>1
  <2>2. Keys(list) = {1}
    BY <2>1 DEF Keys
  <2> DEFINE P(n) == list[n].key = 1 /\ \A m \in DOMAIN list : list[m].key = 1 => m <= n
             i == CHOOSE n \in DOMAIN list : P(n)
  <2>3. 2 \in DOMAIN list /\ P(2)
    BY <2>1
  <2>4. i \in DOMAIN list /\ P(i)
    BY <2>3
  <2>5. i = 2
    BY <2>1, <2>4
  <2>6. Last(list, 1) = list[i]
    BY DEF Last
  <2> QED BY <1>1, <2>1, <2>2, <2>5, <2>6
<1>2. ~Changed(old, new)
  <2> HIDE DEF at
  <2> QED BY <1>1 DEF Changed
<1>3. old[1].settings # new[1].settings
  OBVIOUS
<1> QED BY <1>2, <1>3

-------------------------------------------------------------------------------
(* What the list of preferences says of an event: the object is listed,   *)
(* and it and the severity are switched on.                                *)
Says(listed, severity) == listed # None /\ listed["enabled"] /\ listed[severity]

(* Once there is a row of test_runs, an active user is told of an event as *)
(* the list of preferences says, with two exceptions: "info" of an object  *)
(* without stored preferences is listed as off and told, and preferences   *)
(* stored for an object the user may not see any more still decide, while  *)
(* the object is not listed (list_notification_preferences,                *)
(* notify_event_users).                                                    *)
THEOREM ListedIsTold ==
  ASSUME None \notin Preferences,
         NEW user, user.active, NEW pref \in Preferences \cup {None},
         NEW access \in BOOLEAN, NEW runs, runs # {}, NEW event_type
  PROVE  LET sev  == Severity(event_type)
             says == Says(Listed(user, pref, access, runs), sev)
             told == Hears(user, pref, access, event_type)
         IN  (told <=> says)
               <=> /\ ~(pref = None /\ Visible(user, access) /\ sev = "info")
                   /\ ~(pref # None /\ ~Visible(user, access) /\ pref["enabled"] /\ pref[sev])
<1> DEFINE sev    == Severity(event_type)
           listed == Listed(user, pref, access, runs)
           told   == Hears(user, pref, access, event_type)
<1>1. sev \in Severities
  BY DEF Severity, Severities
<1>2. CASE ~Visible(user, access)
  <2>1. listed = None
    BY <1>2 DEF Listed
  <2>2. told <=> pref # None /\ pref["enabled"] /\ pref[sev]
    BY <1>2 DEF Hears
  <2> QED BY <1>2, <2>1, <2>2 DEF Says
<1>3. CASE Visible(user, access) /\ pref # None
  <2>1. listed = pref /\ pref # None
    BY <1>3 DEF Listed
  <2>2. told <=> pref["enabled"] /\ pref[sev]
    BY <1>3 DEF Hears
  <2> QED BY <1>3, <2>1, <2>2 DEF Says
<1>4. CASE Visible(user, access) /\ pref = None
  <2>1. listed = Defaults
    BY <1>4 DEF Listed
  <2>2. Defaults \in Preferences
    BY DEF Defaults, Preferences
  <2>3. Defaults # None /\ Defaults["enabled"]
    BY <2>2 DEF Defaults
  <2>4. Defaults[sev] = (sev # "info")
    BY <1>1 DEF Defaults
  <2>5. Says(listed, sev) <=> sev # "info"
    <3> HIDE DEF sev, listed
    <3> QED BY <2>1, <2>3, <2>4 DEF Says
  <2>6. told
    BY <1>4 DEF Hears
  <2> QED BY <1>4, <2>5, <2>6
<1> QED BY <1>2, <1>3, <1>4
===============================================================================
