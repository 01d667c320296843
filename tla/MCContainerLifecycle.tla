------------------------ MODULE MCContainerLifecycle ------------------------
(* ContainerLifecycle for TLC: clients, users and processes are strings.    *)
EXTENDS ContainerLifecycle, TLC

\* A setup command of root and an activity writer of the workspace's user.
TwoUids == ("setup" :> "root") @@ ("activity" :> "user")
TwoPids == ("setup" :> "p1") @@ ("activity" :> "p2")

\* The setup command alone.
OneUid == "setup" :> "root"
OnePid == "setup" :> "p1"

\* Two activity writers in one process of the daemon's user and a third one of
\* another user.
ThreeUids == ("a" :> "root") @@ ("b" :> "root") @@ ("c" :> "user")
ThreePids == ("a" :> "p1") @@ ("b" :> "p1") @@ ("c" :> "p2")
=============================================================================
