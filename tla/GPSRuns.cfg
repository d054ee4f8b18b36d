CONSTANT Preferences <- AnySetting
SPECIFICATION FairSpec
INVARIANTS TypeOK ConsumerStops GPSAlive OffWhenUnused
PROPERTY GPSRetries
