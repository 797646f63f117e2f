--------------------------- MODULE ConnectFailure ---------------------------
(***************************************************************************)
(* The two failures of an outbound connection that work on memory nobody   *)
(* initialised.  on_outbound_connection_cb with status < 0: its goto jumps *)
(* over the initialisations of link and client_handle, and the cleanup     *)
(* code then uses both: they hold whatever the stack frame held, the link  *)
(* of an earlier callback or no link at all.  And handle_cmd_open when     *)
(* uv_tcp_init fails: its cleanup code closes client_handle without        *)
(* looking at handle_is_init.                                              *)
(***************************************************************************)
EXTENDS Datapath

VARIABLE closed   \* the last failed request's link, and the link whose handle was closed

CFInit == Init /\ closed = <<NoLink, NoLink>>

(* The stale local names link m; if m has a stream it is closed, else the process dies here. *)
ConnectFailed(l) ==
    /\ phase = "poll" /\ handle[l] = "connecting"
    /\ \E m \in Links \cup {NoLink} :
        /\ closed' = <<l, m>>
        /\ \/ /\ m \in Links /\ handle[m] # "none"
              /\ CloseHandle(m)
              /\ UNCHANGED loopVars
           \/ /\ m \notin Links \/ handle[m] = "none"
              /\ phase' = "off"
              /\ UNCHANGED <<state, joining, svcOpen, link_state, handle>>
    /\ UNCHANGED <<client_list_free, bufVars, eventVars, cmdVars, sendVars>>

(* uv_close on a handle that is none finds no type it knows, and the process dies there. *)
OpenInitFailed ==
    /\ phase = "check" /\ cmds_ready # << >> /\ Head(cmds_ready).type = "OPEN"
    /\ cmds_ready' = Tail(cmds_ready)
    /\ phase' = "off"
    /\ UNCHANGED <<cmds_free, state, joining, svcOpen, linkVars, bufVars, eventVars, sendVars, closed>>

CFNext ==
    \/ Next /\ UNCHANGED closed
    \/ \E l \in Links : ConnectFailed(l)
    \/ OpenInitFailed

CFSpec == CFInit /\ [][CFNext]_<<vars, closed>>

(***************************************************************************)
(* The handle that the callback of a failed connect works on is the one    *)
(* of its own request, as the callback asserts on its other path:          *)
(* TN_ASSERT(client_handle && client_handle == connect_req->handle).       *)
(***************************************************************************)
ClosesOwnHandle == closed[1] = closed[2]
=============================================================================
