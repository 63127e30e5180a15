CONSTANTS
    r1 = r1
    r2 = r2
    v1 = v1
    v2 = v2
    web = web
    Local = local
    vpn = vpn
    Assigned = {vpn, web}
    Addrs = {local, r1, r2, v1, v2, web, vpn}
    NULL = NULL
    NSlots = 2
    DnsLists <- MCDnsLists
    VirtualDns <- MCVirtualDns
SPECIFICATION Spec
INVARIANTS TypeOK SumsCover RoundTrip
