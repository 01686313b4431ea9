----------------------------- MODULE MCProtection -----------------------------
(* TLC instances of Protection: the main goroutine, one call from the window *)
(* at a time, the tray and the events emitter.                               *)
EXTENDS Protection

CONSTANTS main, window, tray, emitter, h1, h2

MCThreads == {main, window, tray, emitter}
MCHandles == {h1, h2}

MCOps == [t \in MCThreads |->
            CASE t = main -> {"Startup", "Shutdown"}
              [] t = window -> {"Toggle", "Enable", "Disable", "Look"}
              [] t = tray -> {"TrayToggle"}
              [] t = emitter -> {"Look"}]

MCOpsNoTray == [MCOps EXCEPT ![tray] = {}]

=============================================================================
