---------------------------- MODULE MCCmdTlmRouter ----------------------------
(* An instance of CmdTlmRouter for TLC: a browser with both ports, a target   *)
(* control that commands only, a screen that listens only, a remote client,   *)
(* and one that gives the port of the screen.                                 *)
EXTENDS CmdTlmRouter

CONSTANTS browser, control, screen, remote, twin, window

MCCmdTools == {browser, control}
MCTlmTools == {browser, screen}
MCRemotes  == {remote, twin}
MCPortOf   == [d \in Dests |-> CASE d = browser -> 1 [] d = remote -> 3 [] OTHER -> 2]

Plain == [who |-> {}, cmds |-> 0, tlm |-> 0, launches |-> 1, remote |-> FALSE,
          calm |-> TRUE, patient |-> TRUE, faults |-> {}]

\* Commands with sources that are added at any time, or replaced while another
\* instance of the tool runs or not; telemetry with tools that are closed and
\* launched again, patiently or not, and with a client on the port of a tool; a
\* switch to a remote target; and the faults.
MCCampaigns ==
  {[Plain EXCEPT !.who = {browser, control}, !.cmds = 1, !.calm = FALSE],
   [Plain EXCEPT !.who = {control}, !.cmds = 2, !.launches = 2, !.patient = FALSE],
   [Plain EXCEPT !.who = {control}, !.cmds = 2, !.faults = {"send"}],
   [Plain EXCEPT !.who = {browser, screen}, !.tlm = 2],
   [Plain EXCEPT !.who = {screen, remote}, !.tlm = 2, !.launches = 2],
   [Plain EXCEPT !.who = {screen, remote}, !.tlm = 1, !.faults = {"send", "connect"}],
   [Plain EXCEPT !.who = {screen, twin}, !.tlm = 1, !.launches = 2],
   [Plain EXCEPT !.who = {screen}, !.tlm = 1, !.launches = 2, !.patient = FALSE],
   [Plain EXCEPT !.who = {control}, !.cmds = 1, !.launches = 2, !.remote = TRUE],
   [Plain EXCEPT !.who = {screen}, !.cmds = 1, !.tlm = 1, !.faults = {"connect", "ctrl"}]}
=============================================================================
