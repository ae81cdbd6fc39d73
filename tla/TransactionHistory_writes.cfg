\* Two writers, two hashes, every kind of entry.
SPECIFICATION FairSpec
CONSTANTS
    s1 = s1  s2 = s2  h1 = h1  h2 = h2  a = a  b = b  x = x  y = y
    Session = {s1, s2}
    Hash = {h1, h2}
    Entries <- MCEntries
    NoRow = NoRow
    MaxWrites = 4
PROPERTIES ImplementsHistory WritesEnd
