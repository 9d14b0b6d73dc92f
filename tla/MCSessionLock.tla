----------------------------- MODULE MCSessionLock -----------------------------
EXTENDS SessionLock

CONSTANTS reply, notice, console, archive, server, background, own

\* Two tasks of the long-lived loop, one of the web server's, one thread.
MCLoopOf == [t \in {reply, notice, console, archive} |->
               CASE t = console -> server
                 [] t = archive -> own
                 [] OTHER -> background]
=============================================================================
