----------------------------- MODULE MCProcesses -----------------------------
(***************************************************************************)
(* The processes of the wrapper, and those of the Go program, which are    *)
(* not started by it: while the ones live, the others are over.            *)
(***************************************************************************)
EXTENDS Wrapper, GoApp

allVars == <<vars, appVars>>

WrapperOver ==
    /\ wrapper = "exited" /\ motor = "dead" /\ parent = "unread"
    /\ screen = "dead" /\ exit = "zero" /\ term = {"motor"}
    /\ young = FALSE /\ watch = "off"

AppOver ==
    /\ main = "ended" /\ ending = 2 /\ clients = {} /\ toAsk = {} /\ asking = NoServer
    /\ job = [n \in Servers |-> "off"] /\ proc = [n \in Servers |-> "none"]
    /\ bound = {} /\ asked = {} /\ counted = {} /\ cancels = {} /\ cancelled = {}
    /\ early = {} /\ panics = 0 /\ reading = FALSE
    /\ writer = [v \in Services |-> "off"] /\ feed = "off"

ProcessesInit == (Init /\ AppOver) \/ (WrapperOver /\ AppInit)

ProcessesNext == (Next /\ UNCHANGED appVars) \/ (AppNext /\ UNCHANGED vars)

ProcessesSpec == ProcessesInit /\ [][ProcessesNext]_allVars /\ Fairness /\ AppFairness

=============================================================================
