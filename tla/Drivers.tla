------------------------------ MODULE Drivers ------------------------------
(***************************************************************************)
(* The processes a scaffold generates next to its web service: the cron     *)
(* driver, which polls its events file and POSTs the due ones one after    *)
(* another, and the Telegram bot, which answers with the newest rows of a  *)
(* chat as history (scaffold/files/cron.py, telegram_bot.py).              *)
(*                                                                         *)
(* Time is in quarters of a minute: the driver sleeps Poll of them, a POST  *)
(* takes none or up to its timeout, Slow of them.                          *)
(***************************************************************************)
EXTENDS Naturals, Sequences, SequencesExt, FiniteSets

CONSTANTS
  Events,     \* enabled events of events.json, in its order
  Due,        \* event -> the minutes its schedule names
  Poll, Slow, Minutes, MaxCronFaults,
  Chats, Window, MaxMessages

(* The driver polls more than once a minute: by default every half minute.   *)
ASSUME DriversAssumption ==
  /\ Poll \in 1..3 /\ Slow \in Nat \ {0} /\ {Minutes, MaxCronFaults, Window, MaxMessages} \subseteq Nat
  /\ Events \in Seq(ToSet(Events))

VARIABLES
  now,        \* in quarters of a minute
  cron,       \* the driver: [pc, minute of its pass, todo]
  fired,       \* its seen_in_minute: <<event, minute>>
  posted,     \* <<event, minute>> -> how often this process posted it
  cronFaults, \* events files that did not parse, and restarts
  lapses,     \* history: the minutes a pass was under way too long, without events, or no driver ran
  since,      \* history: when the driver last started
  rows,       \* chat_history: Seq of [chat, role, ts]
  second,     \* the clock of the database
  bot,        \* the turn the bot is in
  turns       \* history: messages so far

cronVars == <<now, cron, fired, posted, cronFaults, lapses, since>>
botVars  == <<rows, second, bot, turns>>

Minute(t) == t \div 4
Keys      == ToSet(Events) \X (0..Minutes)

DriversInit ==
  /\ now = 0 /\ cron = [pc |-> "poll", minute |-> 0, todo |-> <<>>] /\ fired = {}
  /\ posted = [k \in Keys |-> 0] /\ cronFaults = 0 /\ lapses = {} /\ since = 0
  /\ rows = <<>> /\ second = 0 /\ bot = [pc |-> "idle"] /\ turns = 0

---------------------------------------------------------------------------
(* The cron driver. *)

Fits(t) == t < 4 * Minutes

Until(t) == (Minute(now)..Minute(t))

(* Mutant: an event counts as fired, whichever minute it was. *)
Seen_AnyMinute(e) == \E k \in fired : k[1] = e

Seen(e) == <<e, cron.minute>> \in fired

Matches(e) == cron.minute \in Due[e]

(* The minute of a pass is read once; a file that does not parse is empty. *)
Wake ==
  /\ cron.pc = "poll"
  /\ \/ /\ cron' = [pc |-> "pass", minute |-> Minute(now), todo |-> Events]
        /\ UNCHANGED <<cronFaults, lapses>>
     \/ /\ cronFaults < MaxCronFaults /\ cronFaults' = cronFaults + 1
        /\ cron' = [pc |-> "pass", minute |-> Minute(now), todo |-> <<>>]
        /\ lapses' = lapses \cup {Minute(now)}
  /\ UNCHANGED <<now, fired, posted, since>>

(* One event of the pass: passed over, or posted; the answer, an error or   *)
(* the timeout all count as fired.                                         *)
Fire ==
  /\ cron.pc = "pass" /\ cron.todo # <<>>
  /\ LET e == Head(cron.todo)
         k == <<e, cron.minute>>
     IN  IF Seen(e) \/ ~Matches(e)
         THEN UNCHANGED <<now, fired, posted, lapses>>
         ELSE \E took \in {0, Slow} :
                /\ Fits(now + took) /\ now' = now + took
                /\ lapses' = IF took > 0 THEN lapses \cup Until(now + took + Poll + 1) ELSE lapses
                /\ fired' = fired \cup {k} /\ posted' = [posted EXCEPT ![k] = @ + 1]
  /\ cron' = [cron EXCEPT !.todo = Tail(@)]
  /\ UNCHANGED <<cronFaults, since>>

(* The sleep, and what the pass itself took.                               *)
Sleep ==
  /\ cron.pc = "pass" /\ cron.todo = <<>>
  /\ \E drift \in {0, 1} : Fits(now + Poll + drift) /\ now' = now + Poll + drift
  /\ cron' = [cron EXCEPT !.pc = "poll"]
  /\ UNCHANGED <<fired, posted, cronFaults, lapses, since>>

(* The process dies and is started again, a while later: what it had fired   *)
(* is gone.                                                                *)
RestartCron ==
  /\ cronFaults < MaxCronFaults /\ cronFaults' = cronFaults + 1
  /\ \E pause \in {0, Slow} : /\ Fits(now + pause) /\ now' = now + pause
                              /\ lapses' = lapses \cup Until(now + pause) /\ since' = now + pause
  /\ cron' = [pc |-> "poll", minute |-> 0, todo |-> <<>>] /\ fired' = {}
  /\ posted' = [k \in Keys |-> 0]

CronNext == Wake \/ Fire \/ Sleep \/ RestartCron

---------------------------------------------------------------------------
(* The bot: updates are handled one at a time. *)

Of(chat) == {i \in DOMAIN rows : rows[i].chat = chat}

(* Mutant: the oldest rows are taken. *)
Newer_Swapped(i, j) == rows[i].ts < rows[j].ts

Newer(i, j) == rows[i].ts > rows[j].ts

(* ORDER BY ts DESC LIMIT Window, reversed.  Rows of the same second come   *)
(* in any order.                                                           *)
Selections(chat) ==
  {s \in UNION {[1..n -> Of(chat)] : n \in {IF Cardinality(Of(chat)) < Window THEN Cardinality(Of(chat)) ELSE Window}} :
     /\ IsInjective(s)
     /\ \A k \in DOMAIN s : \A i \in Of(chat) :
          /\ i \notin Range(s) => ~Newer(i, s[k])
          /\ \A l \in DOMAIN s : k < l => ~Newer(s[k], s[l])}

Message ==
  /\ bot.pc = "idle" /\ turns < MaxMessages /\ turns' = turns + 1
  /\ \E chat \in Chats : \E s \in Selections(chat) : bot' = [pc |-> "answer", chat |-> chat, history |-> s]
  /\ UNCHANGED <<rows, second>>

Row(role) == [chat |-> bot.chat, role |-> role, ts |-> second]

(* The turn ends, with an answer or an error: one row, then the other.     *)
Remember ==
  /\ \/ bot.pc = "answer" /\ rows' = Append(rows, Row("user")) /\ bot' = [pc |-> "reply", chat |-> bot.chat, history |-> bot.history]
     \/ bot.pc = "reply" /\ rows' = Append(rows, Row("assistant")) /\ bot' = [pc |-> "idle"]
  /\ UNCHANGED <<second, turns>>

(* An exception of the turn, or a restart of the bot.                      *)
Abandon ==
  /\ bot.pc # "idle" /\ bot' = [pc |-> "idle"] /\ UNCHANGED <<rows, second, turns>>

NextSecond == second < MaxMessages /\ second' = second + 1 /\ UNCHANGED <<rows, bot, turns>>

BotNext == Message \/ Remember \/ Abandon \/ NextSecond

DriversNext == (CronNext /\ UNCHANGED botVars) \/ (BotNext /\ UNCHANGED cronVars)
DriversSpec == DriversInit /\ [][DriversNext]_<<cronVars, botVars>>

---------------------------------------------------------------------------
(* Properties. *)

(* One driver process posts an event at most once for a minute; and when a  *)
(* minute is over, every event that was due in it was posted, unless the    *)
(* driver was started in it or later, or a slow POST, an unreadable file or *)
(* a restart fell into it or reached into it.                              *)
DuePosted ==
  /\ \A k \in Keys : posted[k] <= 1
  /\ cron.pc = "poll" =>
       \A e \in ToSet(Events), m \in 0..Minutes :
         m < Minute(now) /\ m > Minute(since) /\ m \notin lapses /\ m \in Due[e] => posted[<<e, m>>] = 1

(* The history of a turn are rows of its own chat in the order of their     *)
(* seconds, and none that was left out is newer than one that was taken.    *)
HistoryOfChat ==
  bot.pc # "idle" =>
    LET h == bot.history IN
    /\ \A k, l \in DOMAIN h : k < l => rows[h[k]].ts <= rows[h[l]].ts
    /\ \A i \in DOMAIN rows, k \in DOMAIN h :
         /\ rows[h[k]].chat = bot.chat
         /\ rows[i].chat = bot.chat /\ rows[i].ts > rows[h[k]].ts /\ Len(h) > 0 =>
              i \in Range(h) \/ (bot.pc = "reply" /\ i = Len(rows))

DriversKeepWord == DuePosted /\ HistoryOfChat
=============================================================================
