SPECIFICATION Spec
CONSTANTS
    web = web
    otherWeb = otherWeb
    boundWeb = boundWeb
    shootWeb = shootWeb
    shootShootWeb = shootShootWeb
    webCopy = webCopy
    db = db
    dns = dns
    n1 = n1
    n2 = n2
    n3 = n3
    Pods = {web, otherWeb, boundWeb, shootWeb, shootShootWeb, webCopy, db, dns}
    PodInfo <- MCPodInfo
    Nodes = {n1, n2, n3}
    InstanceType <- MCInstanceType
    NodeTemplates <- MCTemplates
    MaxPods = 4
INVARIANTS
    TypeOK
    RecordedAsPlaced
    NoPodForgotten
    NamesakesGetNoNodes
