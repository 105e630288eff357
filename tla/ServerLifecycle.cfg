\* Two requests, so that one may be read while another is handled, and every
\* environment within two changes of a good one.
CONSTANTS
    Environments <- MCEnvironments
    DemoProjects = {"demo-test-project", "demo-a", "demo-b"}
    LoopbackHosts = {"localhost:1", "[::1]:2"}
    Requests = {r1, r2}
SPECIFICATION FairSpec
CHECK_DEADLOCK FALSE
INVARIANTS
    IndInv
    EmulatorsStayLocal
    NoRequestCutOff
PROPERTY
    EventuallyExits
