------------------------------- MODULE MC_Links -------------------------------
(***************************************************************************)
(* Instances of Downlink, UartServer and Telnet in one run.  They share no *)
(* state: a behaviour is one of them, while the others stay as they start. *)
(***************************************************************************)
EXTENDS Downlink, UartServer, Telnet

VARIABLE link  \* the one that moves

\* Three streams: one that skips, one that is configured to skip less than none.
MCStreams   == {"imu", "gps"}
MCSize      == [imu |-> 3, gps |-> 2, ap |-> 2]
MCSkipCount == [imu |-> 1, gps |-> -1, ap |-> 1]

MCLines   == {<<"q">>, <<"!">>, <<"a">>, <<"b", "c", "d">>}
MCQuit    == <<"q">>
MCBadPath == <<"!">>

LinksInit ==
  /\ link \in {"telemetry", "server", "telnet"}
  /\ DownInit /\ UartInit /\ TelnetInit
  /\ link # "telemetry" => ~link_open /\ skip = [s \in AllStreams |-> 0]

LinksNext ==
  /\ UNCHANGED link
  /\ \/ link = "telemetry" /\ DownNext /\ UNCHANGED <<uart_vars, telnet_vars>>
     \/ link = "server" /\ UartNext /\ UNCHANGED <<down_vars, telnet_vars>>
     \/ link = "telnet" /\ TelnetNext /\ UNCHANGED <<down_vars, uart_vars>>

links_vars == <<link, down_vars, uart_vars, telnet_vars>>

Reports   == link = "telemetry" /\ (SkipReport \/ SendReport) /\ UNCHANGED <<link, uart_vars, telnet_vars>>
Processes == link = "telnet" /\ Process /\ UNCHANGED <<link, down_vars, uart_vars>>

LinksSpec ==
  LinksInit /\ [][LinksNext]_links_vars /\ WF_links_vars(Reports) /\ WF_links_vars(Processes)

==============================================================================
