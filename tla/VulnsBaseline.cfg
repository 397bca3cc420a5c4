CONSTANTS
    Hosts = {h1}
    Vulns = {v1}
    Users = {u1}
SPECIFICATION VulnSpec
PROPERTIES
    OnlyFirstIsBaseline
CHECK_DEADLOCK FALSE
