CONSTANT Sizes <- OrderSizes
SPECIFICATION SlotsSpec
PROPERTY FreedWhenBooked
CHECK_DEADLOCK FALSE
