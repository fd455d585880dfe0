CONSTANTS
    Domain = {"disk", "incident", "syslog"}
SPECIFICATION FairSpec
PROPERTY
    FaultStaysTold
