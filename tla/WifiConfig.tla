----------------------------- MODULE WifiConfig -----------------------------
(***************************************************************************)
(* How the name and the key of a wifi network get from the shell through   *)
(* the key-value store to demo_task (source/wiced_iperf.c). ShellTask      *)
(* stores the two one after the other, unless they are there already;      *)
(* demo_task reads the two every second, into buffers that it never        *)
(* clears, and tries to join, until it has joined. Then it uses the store  *)
(* for itself. The power may fail at any time.                             *)
(*                                                                         *)
(* Names and keys are sequences of letters, of which their lengths and     *)
(* common beginnings matter.                                               *)
(***************************************************************************)
EXTENDS KvCalls, Sequences, SequencesExt

CONSTANTS
    Shell, Demo,    \* ShellTask and demo_task, the callers of this product
    Mark,           \* the letter 0xff
    Configs,        \* the pairs of name and key that are entered
    Networks,       \* the pairs that an access point accepts
    Sessions,       \* what demo_task stores for itself
    MaxCommands,    \* bound of the model: commands entered
    MaxFailures     \* bound of the model: losses of power

\* The buffers of the shell and of demo_task.
BufferLength == 40

\* The name and the key of a factory reset.
Invalid == <<<<Mark>>, <<Mark>>>>

ASSUME WifiConfigAssumption ==
    /\ Tasks = {Shell, Demo} /\ Shell # Demo
    /\ Keys = {"wifi_ssid", "wifi_key", "session"}
    /\ \A c \in Configs \cup {Invalid} : c[1] \in Vals /\ c[2] \in Vals
    /\ \A v \in Vals : v \in Seq(Nat) /\ v # << >>
    /\ \A c \in Configs : Len(c[1]) < BufferLength /\ Len(c[2]) < BufferLength
    /\ Networks \subseteq Configs
    /\ Sessions \subseteq Vals
    /\ MaxCommands \in Nat
    /\ MaxFailures \in Nat

VARIABLES
    shell,      \* what ShellTask does when its call returns
    wanted,     \* the pair it has been given
    demo,       \* what demo_task does when its call returns
    ssid, key,  \* wifi_ssid and wifi_key of app_wait_wifi_connect
    ssid_len, key_len,
    tried,      \* the pair it has last tried to join with
    commands, failures

wifiVars == <<shell, wanted, demo, ssid, key, ssid_len, key_len, tried, commands, failures>>
vars == <<kvVars, wifiVars>>

TypeOK ==
    /\ KvTypeOK
    /\ shell \in {"prompt", "same_ssid", "same_key", "ssid", "key"}
    /\ wanted \in Configs \cup {Invalid}
    /\ demo \in {"wait", "ssid", "key", "join", "online"}
    /\ ssid \in Seq(Nat) /\ key \in Seq(Nat)
    /\ Len(ssid) <= BufferLength /\ Len(key) <= BufferLength
    /\ ssid_len \in 1 .. BufferLength /\ key_len \in 1 .. BufferLength
    /\ tried \in {None} \cup Seq(Nat) \X Seq(Nat)
    /\ commands \in 0 .. MaxCommands
    /\ failures \in 0 .. MaxFailures

Init ==
    /\ KvInit
    /\ shell = "prompt"
    /\ wanted = Invalid
    /\ demo = "wait"
    /\ ssid = << >> /\ key = << >>
    /\ ssid_len = BufferLength /\ key_len = BufferLength
    /\ tried = None
    /\ commands = 0
    /\ failures = 0

Read(k) == [op |-> "get", key |-> k]
Write(k, v) == [op |-> "set", key |-> k, val |-> v]

-----------------------------------------------------------------------------
(* ShellTask: app_process_recive_cmd, app_process_wifi_config               *)

ShellGoes(label, c) ==
    /\ shell' = label
    /\ Begin(Shell, c)
    /\ UNCHANGED <<demo, ssid, key, ssid_len, key_len, tried, failures>>

ShellRests ==
    /\ shell' = "prompt"
    /\ Rest(Shell)
    /\ UNCHANGED <<demo, ssid, key, ssid_len, key_len, tried, failures>>

Command(pair) ==
    /\ pc[Shell] = "idle"
    /\ commands < MaxCommands
    /\ commands' = commands + 1
    /\ wanted' = pair

\* A name and a key are entered ...
Enter(pair) == Command(pair) /\ ShellGoes("same_ssid", Read("wifi_ssid"))

\* ... or a factory reset, which stores without a look.
Factory == Command(Invalid) /\ ShellGoes("ssid", Write("wifi_ssid", Invalid[1]))

\* app_wifi_ib_same: strncmp as far as the stored value goes.
Same(new) == got[Shell] # None /\ IsPrefix(got[Shell], new)

Continues(label) == pc[Shell] = "done" /\ shell = label /\ UNCHANGED <<wanted, commands>>

SameSsid ==
    /\ Continues("same_ssid")
    /\ IF Same(wanted[1]) THEN ShellGoes("same_key", Read("wifi_key"))
                          ELSE ShellGoes("ssid", Write("wifi_ssid", wanted[1]))

SameKey ==
    /\ Continues("same_key")
    /\ IF Same(wanted[2]) THEN ShellRests
                          ELSE ShellGoes("ssid", Write("wifi_ssid", wanted[1]))

\* What became of the set is not looked at.
SsidStored == Continues("ssid") /\ ShellGoes("key", Write("wifi_key", wanted[2]))

KeyStored == Continues("key") /\ ShellRests

ShellStep == SameSsid \/ SameKey \/ SsidStored \/ KeyStored

-----------------------------------------------------------------------------
(* demo_task: app_wait_wifi_connect                                        *)

\* HAL_SleepMs(1000) is over.
Wake ==
    /\ pc[Demo] = "idle" /\ demo = "wait"
    /\ Begin(Demo, Read("wifi_ssid"))
    /\ demo' = "ssid"
    /\ UNCHANGED <<shell, wanted, ssid, key, ssid_len, key_len, tried, commands, failures>>

\* Mutant: values are appended.
CopiedBehind(buffer, v) == buffer \o v

\* What kv_item_get leaves in a buffer: the rest of a longer value stays.
Copied(buffer, v) == v \o SubSeq(buffer, Len(v) + 1, Len(buffer))

\* kv_item_get has found a value that fits into len.
Fits(v, len) == v # None /\ Len(v) <= len

\* Mutant: the length is left alone when the value does not fit.
LengthKept(v, len) == IF v = None \/ Len(v) > len THEN len ELSE Len(v)

\* Its length is returned, also when it does not fit.
Length(v, len) == IF v = None THEN len ELSE Len(v)

\* The name is read; unless it is the mark, so is the key.
GotSsid ==
    /\ pc[Demo] = "done" /\ demo = "ssid"
    /\ ssid_len' = Length(got[Demo], ssid_len)
    /\ ssid' = IF Fits(got[Demo], ssid_len) THEN Copied(ssid, got[Demo]) ELSE ssid
    /\ IF Fits(got[Demo], ssid_len) /\ (ssid_len' # 1 \/ ssid'[1] # Mark)
       THEN Begin(Demo, Read("wifi_key")) /\ demo' = "key"
       ELSE Rest(Demo) /\ demo' = "wait"
    /\ UNCHANGED <<shell, wanted, key, key_len, tried, commands, failures>>

\* Mutant: the result of the second get is not looked at.
GotKeyAnyway ==
    /\ pc[Demo] = "done" /\ demo = "key"
    /\ key_len' = Length(got[Demo], key_len)
    /\ key' = IF Fits(got[Demo], key_len) THEN Copied(key, got[Demo]) ELSE key
    /\ tried' = <<ssid, key'>>
    /\ demo' = "join"
    /\ Rest(Demo)
    /\ UNCHANGED <<shell, wanted, ssid, ssid_len, commands, failures>>

\* The key is read; with one of a letter nothing is tried. Joining waits for
\* the network.
GotKey ==
    /\ pc[Demo] = "done" /\ demo = "key"
    /\ key_len' = Length(got[Demo], key_len)
    /\ key' = IF Fits(got[Demo], key_len) THEN Copied(key, got[Demo]) ELSE key
    /\ IF Fits(got[Demo], key_len) /\ key_len' # 1
       THEN tried' = <<ssid, key'>> /\ demo' = "join"
       ELSE UNCHANGED tried /\ demo' = "wait"
    /\ Rest(Demo)
    /\ UNCHANGED <<shell, wanted, ssid, ssid_len, commands, failures>>

\* wwd_wifi_join: it may fail with a right pair as well.
Join ==
    /\ pc[Demo] = "idle" /\ demo = "join" /\ Runs(Demo)
    /\ demo' \in IF tried \in Networks THEN {"wait", "online"} ELSE {"wait"}
    /\ UNCHANGED <<kvVars, shell, wanted, ssid, key, ssid_len, key_len, tried, commands, failures>>

\* The cloud connection stores its session.
Session(v) ==
    /\ pc[Demo] \in {"idle", "done"} /\ demo = "online"
    /\ Begin(Demo, Write("session", v))
    /\ UNCHANGED wifiVars

Stored ==
    /\ demo = "online"
    /\ Rest(Demo)
    /\ UNCHANGED wifiVars

DemoStep == GotSsid \/ GotKey \/ Stored

-----------------------------------------------------------------------------

\* The call under way has had its effect or has not.
PowerFailure ==
    /\ failures < MaxFailures
    /\ KvReboot
    /\ shell' = "prompt"
    /\ wanted' = Invalid
    /\ demo' = "wait"
    /\ ssid' = << >> /\ key' = << >>
    /\ ssid_len' = BufferLength /\ key_len' = BufferLength
    /\ tried' = None
    /\ failures' = failures + 1
    /\ UNCHANGED commands

Next ==
    \/ KvStep /\ UNCHANGED wifiVars
    \/ \E pair \in Configs : Enter(pair)
    \/ Factory \/ ShellStep
    \/ Wake \/ Join \/ DemoStep
    \/ \E v \in Sessions : Session(v)
    \/ PowerFailure

Spec == Init /\ [][Next]_vars

\* The tasks run when those of higher priority rest, and those do; demo_task
\* sleeps a second, and a join has an end.
FairSpec ==
    /\ Spec
    /\ WF_vars(GcStep /\ UNCHANGED wifiVars)
    /\ \A t \in Tasks : SF_vars(TaskStep(t) /\ UNCHANGED wifiVars)
    /\ SF_vars(ShellStep) /\ SF_vars(DemoStep)
    /\ SF_vars(Wake) /\ SF_vars(Join)

-----------------------------------------------------------------------------
(* Properties.                                                             *)

\* The name and the key that demo_task tries, without what is left in its
\* buffers of longer ones, are those that the store holds together at that
\* moment, although it reads them in two calls and the shell stores them in
\* two.
Stands(k, s, len) == store[k] # None /\ len = Len(store[k]) /\ IsPrefix(store[k], s)
TriedTogether ==
    [][demo # "join" /\ demo' = "join" =>
        /\ Stands("wifi_ssid", tried'[1], ssid_len')
        /\ Stands("wifi_key", tried'[2], key_len')]_vars

\* A pair that is stored, and stays, is tried, though one that is longer than
\* the last is refused at first (KV_ERR_NO_SPACE): unless the buffers hold
\* longer values, the rest of which is never cleared.
Settled(c) ==
    /\ store["wifi_ssid"] = c[1] /\ store["wifi_key"] = c[2]
    /\ pc[Shell] = "idle"
    /\ demo # "online"
    /\ Len(ssid) <= Len(c[1]) /\ Len(key) <= Len(c[2])
SettledIsTried ==
    \A c \in Configs :
        Settled(c) ~> tried = c \/ pc[Shell] # "idle" \/ demo = "online"

=============================================================================
