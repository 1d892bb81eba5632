------------------------------ MODULE MCRollout ------------------------------
EXTENDS RolloutProperties

\* app is a deployment and the beginning of the configuration appdb, which is the
\* beginning of appdb2; web has a name of its own.
CONSTANTS web, app, appdb, appdb2, nobody

ModelNames ==
  [d \in {web, app, appdb, appdb2, nobody} |->
     CASE d = app -> {app, appdb, appdb2}
       [] d = appdb -> {appdb, appdb2}
       [] d = nobody -> {}
       [] OTHER -> {d}]

ModelCalls ==
  [names : {<<web, web>>}, parallel : BOOLEAN]
    \cup [names : {<<web, appdb2>>}, parallel : {TRUE}]
    \cup [names : {<<appdb>>, <<app>>, <<nobody>>}, parallel : {FALSE}]
=============================================================================
