---------------------------- MODULE MCInputCore ----------------------------
(* Values of InputCore's constants for TLC. *)
EXTENDS InputCore, TLC

CONSTANTS sweepc, agentc, tab1, tab2, sweepid, browser, a, b, ctrl, shift, btn,
          chA, cha

MCCharMap == (chA :> [code |-> a, shift |-> TRUE]) @@ (cha :> [code |-> a, shift |-> FALSE])
MCRank == (ctrl :> 0) @@ (shift :> 2) @@ (a :> 4) @@ (b :> 4) @@ (btn :> 4)
RemapNothing == [c \in {a, b, ctrl, shift, btn} |-> c]
RemapSwaps == [RemapNothing EXCEPT ![ctrl] = b, ![b] = ctrl]

Ask(cmd, args) == [cmd |-> cmd, args |-> args]
LockAsks == {Ask(cmd, <<>>) : cmd \in LockCommands}

\* A sweep that takes the lock, an agent that does not, and a browser tab.
MCAs == (sweepc :> sweepid) @@ (agentc :> browser) @@ (tab1 :> browser)
LockAsksOf ==
    (sweepc :> LockAsks \cup {Ask("combo", <<a, ctrl>>), Ask("type", <<chA, cha>>)})
 @@ (agentc :> {Ask("break", <<>>), Ask("hold", <<shift>>), Ask("keyup", <<a>>)})
 @@ (tab1 :> {Ask("keydown", <<ctrl>>), Ask("release_all", <<>>)})

\* Keyboard and mouse through the gadget: two tabs and a socket client, and
\* nobody takes the lock for another identity.
TabsAs == (agentc :> sweepid) @@ (tab1 :> browser) @@ (tab2 :> browser)
TabsAsks ==
    (agentc :> {Ask("combo", <<a, ctrl>>), Ask("keydown", <<a>>), Ask("mouse_down", <<btn>>),
                Ask("mouse_release_all", <<>>)})
 @@ (tab1 :> {Ask("keydown", <<k>>) : k \in {a, ctrl}}
       \cup {Ask("keyup", <<ctrl>>), Ask("release_all", <<>>)})
 @@ (tab2 :> {Ask("keydown", <<b>>), Ask("type", <<chA>>)})

\* Through the gadget too: two socket clients, who type, click and sweep up.
HostAs == (agentc :> browser) @@ (sweepc :> sweepid)
HostAsks ==
    (agentc :> {Ask("combo", <<b, ctrl>>), Ask("keydown", <<a>>), Ask("key", <<b, a>>),
                Ask("mouse_down", <<btn>>), Ask("mouse_release_all", <<>>)})
 @@ (sweepc :> {Ask("release_all", <<>>), Ask("mouse_click", <<btn>>),
                Ask("mouse_move", <<>>), Ask("mouse_up", <<btn>>)})
=============================================================================
