------------------------------ MODULE StaDriver ------------------------------
(***************************************************************************)
(* The station half of the ESP-IDF Wi-Fi driver, as far as wifi_app.c can  *)
(* tell: what the three calls it makes answer in each state of the link,   *)
(* and which notice the driver posts to the default event loop when the    *)
(* link changes by itself.  The driver is not in this repository; its      *)
(* behaviour is what the calls and the event handler of wifi_app.c rely on.*)
(***************************************************************************)

(***************************************************************************)
(* "idle": no link; "connecting": a connection attempt runs, up to and     *)
(* including the DHCP exchange; "up": associated with an address;          *)
(* "leaving": a disconnection was asked for and its notice is still to     *)
(* come; "switching": the same, with a new attempt asked for behind it.    *)
(***************************************************************************)
StaStates == {"idle", "connecting", "up", "leaving", "switching"}

Notices == {"got_ip", "disconnected"}

\* What esp_wifi_connect may answer, and the state it leaves the station in.  A
\* call in the middle of an attempt is an error; one on a link that is up or being
\* torn down is taken or refused, which differs between driver versions.
ConnectAnswers ==
  {[from |-> "idle",       ok |-> TRUE,  to |-> "connecting"],
   [from |-> "up",         ok |-> TRUE,  to |-> "switching"],
   [from |-> "up",         ok |-> FALSE, to |-> "up"],
   [from |-> "leaving",    ok |-> TRUE,  to |-> "switching"],
   [from |-> "leaving",    ok |-> FALSE, to |-> "leaving"],
   [from |-> "connecting", ok |-> FALSE, to |-> "connecting"],
   [from |-> "switching",  ok |-> FALSE, to |-> "switching"]}

\* esp_wifi_set_config refuses to change the station's network during an attempt.
SetConfigAccepted(sta) == sta \notin {"connecting", "switching"}

\* esp_wifi_disconnect: a link or an attempt is torn down, otherwise no effect.
AfterDisconnect(sta) == IF sta = "idle" THEN "idle" ELSE "leaving"

\* The link changes the driver makes by itself, each with the notice it posts.
LinkChanges ==
  {[from |-> "connecting", to |-> "up",         notice |-> "got_ip"],
   [from |-> "connecting", to |-> "idle",       notice |-> "disconnected"],
   [from |-> "up",         to |-> "idle",       notice |-> "disconnected"],
   [from |-> "leaving",    to |-> "idle",       notice |-> "disconnected"],
   [from |-> "switching",  to |-> "connecting", notice |-> "disconnected"]}

\* The changes that must come in the end: an attempt succeeds or fails, a
\* disconnection completes.  A link that is up may stay up for ever.
IsPending(sta) == sta \in {"connecting", "leaving", "switching"}
==============================================================================
