---------------------------- MODULE MCAocService ----------------------------
EXTENDS AocService

CONSTANTS t1, t2

ReaderAndWriter ==
    [t \in {t1, t2} |-> IF t = t1 THEN {"read"} ELSE {"write"}]
ReadsAndWrites == [t \in {t1} |-> {"read", "read_nonblock", "write_timeout"}]
OneReader == [t \in {t1} |-> {"read"}]
TwoReaders == [t \in {t1, t2} |-> {"read"}]
TwoWriters == [t \in {t1, t2} |-> {"write"}]
=============================================================================
