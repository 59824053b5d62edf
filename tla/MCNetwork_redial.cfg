SPECIFICATION RedialSpec
CONSTANTS
    good = good
    other = other
    near = near
    named = named
    sentry = sentry
    val = val
    home = home
    site = site
    None = None
    Peers <- TwoPeers
    Faulty <- OnlyOther
    Hung <- NoPeer
    Rank <- GoodFirst
    MaxHeight = 3
    BatchSize = 2
    Checkpoint = 1
    Rivals <- FirstHeight
    BanThreshold = 3
    MaxInbound = 2
    Start = 2
    MaxFaults = 1
    Nobody = Nobody
    Remotes = {sentry}
    Addresses <- ClosedAddrs
    AddrId <- ClosedIds
    AddrHost <- ClosedIds
    AddrIp <- ClosedIps
    IpOf <- ClosedSites
    Bootstrap <- Configured
    Private = {sentry}
    Sentries <- NoAnnouncers
    MaxPeers = 2
    Reserved = 0
    MaxPerIp = 1
    MaxLearned = 2
    MaxDials = 1
    MaxEvents = 0
PROPERTIES EveryAddressRedialed
CHECK_DEADLOCK FALSE
